---- MODULE Spec2Model ----
(***************************************************************************)
(* A model of visual-agent: the text-to-visual compiler of                 *)
(* src/visual_agent.py (VisualAgent) and its HTTP front end                *)
(* src/api/index.py.                                                       *)
(*                                                                         *)
(* Text is modelled as a sequence of lexemes (tokens): a word, a number,   *)
(* one punctuation mark, one blank " " or one line break "\n".  Every      *)
(* regular expression of the source is an operator over token sequences    *)
(* that matches what the expression matches on such a text.  Words are     *)
(* atomic, so the texts the model draws never put two words next to each   *)
(* other without a blank or a punctuation mark between them, and never     *)
(* hold three blanks in a row.                                             *)
(*                                                                         *)
(* A label is the token sequence of the label's text; a node id "node_3"   *)
(* is the token sequence <<"node_", "3">>.                                 *)
(***************************************************************************)
EXTENDS Integers, Sequences, FiniteSets, TLC

\* ------------------------------------------------------------------------
\* Lexemes
\* ------------------------------------------------------------------------

\* str.lower() / re.IGNORECASE on one word: the words of the vocabulary
\* that hold an upper-case letter, each with its lower-case form.
CasePairs ==
    { <<"Start", "start">>, <<"End", "end">>, <<"Load", "load">>,
      <<"Save", "save">>, <<"Check", "check">>, <<"Verify", "verify">>, <<"Valid", "valid">>,
      <<"Login", "login">>, <<"Send", "send">>, <<"Step", "step">>, <<"If", "if">>,
      <<"Yes", "yes">>, <<"No", "no">>, <<"Casino", "casino">>,
      <<"Api", "api">>, <<"Db", "db">>, <<"Web", "web">>,
      <<"The", "the">>, <<"An", "an">>, <<"Q1", "q1">>, <<"Q2", "q2">>,
      <<"Jan", "jan">>, <<"Sales", "sales">>, <<"Connects", "connects">>,
      <<"Token", "token">> }

Lower(t) ==
    IF \E p \in CasePairs : p[1] = t
    THEN (CHOOSE p \in CasePairs : p[1] = t)[2]
    ELSE t

\* \s : a blank or a line break
IsSpace(t) == t \in {" ", "\n"}

\* \d+ : a number
IsNum(t) == t \in {"0", "1", "2", "3", "5", "10"}

\* the arrow tokens of r'\s*→\s*|\s*->\s*'
IsArrow(t) == t \in {"->", "→"}

\* [A-Z0-9] as the first character of a lexeme
StartsUpperOrDigit(t) == IsNum(t) \/ (\E p \in CasePairs : p[1] = t)

\* a lexeme whose last two characters are "no", in any case (r'no\s*:')
EndsWithNo(t) == Lower(t) \in {"no", "casino"}

\* ------------------------------------------------------------------------
\* Sequence helpers
\* ------------------------------------------------------------------------

None == <<"None">>

Min(S) == CHOOSE x \in S : \A y \in S : x <= y
Max(S) == CHOOSE x \in S : \A y \in S : x >= y

\* s[a..b], empty when a > b
Slice(s, a, b) == IF a > b THEN <<>> ELSE SubSeq(s, a, b)

\* the index of the first lexeme at or after i that is no blank, Len(s)+1 if none
RECURSIVE SkipSpace(_, _)
SkipSpace(s, i) ==
    IF i > Len(s) THEN Len(s) + 1
    ELSE IF IsSpace(s[i]) THEN SkipSpace(s, i + 1) ELSE i

\* the index of the last lexeme at or before i that is no blank, 0 if none
RECURSIVE SkipSpaceBack(_, _)
SkipSpaceBack(s, i) ==
    IF i < 1 THEN 0
    ELSE IF IsSpace(s[i]) THEN SkipSpaceBack(s, i - 1) ELSE i

\* str.strip()
Strip(s) == Slice(s, SkipSpace(s, 1), SkipSpaceBack(s, Len(s)))

\* str.split(sep) for a one-lexeme separator: the pieces, in order
RECURSIVE SplitAt(_, _, _)
SplitAt(s, IsSep(_), cur) ==
    IF s = <<>> THEN <<cur>>
    ELSE IF IsSep(Head(s)) THEN <<cur>> \o SplitAt(Tail(s), IsSep, <<>>)
    ELSE SplitAt(Tail(s), IsSep, Append(cur, Head(s)))

RECURSIVE MapSeq(_, _)
MapSeq(F(_), s) == IF s = <<>> THEN <<>> ELSE <<F(Head(s))>> \o MapSeq(F, Tail(s))

RECURSIVE FilterSeq(_, _)
FilterSeq(P(_), s) ==
    IF s = <<>> THEN <<>>
    ELSE (IF P(Head(s)) THEN <<Head(s)>> ELSE <<>>) \o FilterSeq(P, Tail(s))

NonEmpty(s) == s # <<>>

\* lines = [line.strip() for line in text.split('\n') if line.strip()]
IsNewline(t) == t = "\n"
SplitLines(text) ==
    FilterSeq(NonEmpty, MapSeq(Strip, SplitAt(text, IsNewline, <<>>)))

\* '\n'.join(lines)
RECURSIVE JoinLines(_)
JoinLines(ls) ==
    IF ls = <<>> THEN <<>>
    ELSE IF Len(ls) = 1 THEN ls[1]
    ELSE ls[1] \o <<"\n">> \o JoinLines(Tail(ls))

\* ------------------------------------------------------------------------
\* VisualAgent.redact_secrets
\* ------------------------------------------------------------------------

\* the words of the third secret pattern (line 54); "api-key" and "api_key"
\* end in the word "key"
SecretWords == {"password", "pwd", "secret", "key", "token"}

\* the index of the last lexeme of the run of non-blank lexemes that starts at i
RECURSIVE RunEnd(_, _)
RunEnd(s, i) ==
    IF i + 1 <= Len(s) /\ ~IsSpace(s[i + 1]) THEN RunEnd(s, i + 1) ELSE i

\* r'\b(?:password|pwd|secret|key|token|api[-_]?key)\s*[:=]\s*\S+' at the
\* head of s: the index of the last lexeme it matches, 0 if it does not match
SecretEnd(s) ==
    LET c == SkipSpace(s, 2)
        v == SkipSpace(s, c + 1)
    IN  IF /\ Lower(Head(s)) \in SecretWords
           /\ c <= Len(s) /\ s[c] \in {":", "="} /\ v <= Len(s)
        THEN RunEnd(s, v)
        ELSE 0

\* redact_secrets(text): re.sub of each secret pattern in turn.  The e-mail,
\* card-number and sk-/pk- patterns need an "@", four digits in a row or a
\* 20-character key, which no lexeme of the vocabulary holds; the third
\* pattern rewrites "<word>: <value>" to "password: [REDACTED]".
RECURSIVE redact_secrets(_)
redact_secrets(text) ==
    IF text = <<>> THEN <<>>
    ELSE IF SecretEnd(text) # 0
         THEN <<"password", ":", " ", "[REDACTED]">>
                  \o redact_secrets(Slice(text, SecretEnd(text) + 1, Len(text)))
         ELSE <<Head(text)>> \o redact_secrets(Tail(text))

\* ------------------------------------------------------------------------
\* Classifier: VisualAgent.detect_visual_type
\* ------------------------------------------------------------------------

\* class VisualType(Enum): the three values
VisualType == {"flowchart", "diagram", "chart"}

\* the number of matches of r'[:=]\s*\d+' in text (re.findall; \s spans lines)
KeyValueCount(text) ==
    Cardinality({ i \in 1..Len(text) :
        /\ text[i] \in {":", "="}
        /\ SkipSpace(text, i + 1) <= Len(text)
        /\ IsNum(text[SkipSpace(text, i + 1)]) })

\* r'\b(q1|q2|q3|q4|jan|...|dec)\b', re.IGNORECASE
QuarterOrMonth ==
    {"q1", "q2", "q3", "q4", "jan", "feb", "mar", "apr", "may", "jun",
     "jul", "aug", "sep", "oct", "nov", "dec"}
HasQuarterOrMonth(text) == \E i \in 1..Len(text) : Lower(text[i]) \in QuarterOrMonth

\* r'\b(start|begin|end|finish|step|process)\b' on text.lower()
FlowKeywords == {"start", "begin", "end", "finish", "step", "process"}
HasFlowKeywords(text) == \E i \in 1..Len(text) : Lower(text[i]) \in FlowKeywords

\* r'\b(yes|no)\s*:', re.IGNORECASE
HasYesNo(text) ==
    \E i \in 1..Len(text) :
        /\ Lower(text[i]) \in {"yes", "no"}
        /\ SkipSpace(text, i + 1) <= Len(text)
        /\ text[SkipSpace(text, i + 1)] = ":"

\* r'\bif\b[\s\S]*\bthen\b', re.IGNORECASE
HasIfThen(text) ==
    \E i, j \in 1..Len(text) :
        i < j /\ Lower(text[i]) = "if" /\ Lower(text[j]) = "then"

\* the chart test of line 78
ChartSignal(text) ==
    (KeyValueCount(text) >= 1 /\ HasQuarterOrMonth(text)) \/ KeyValueCount(text) >= 3

\* the flowchart test of line 89
FlowchartSignal(text) ==
    HasFlowKeywords(text) \/ (\E i \in 1..Len(text) : text[i] = "?")
        \/ HasYesNo(text) \/ HasIfThen(text)

\* the content rules of lines 72-93, in the order the code applies them
\* a variant that tests the flowchart signals before the chart signal
AutoDetectFlowFirst(text) ==
    IF FlowchartSignal(text) THEN "flowchart"
    ELSE IF ChartSignal(text) THEN "chart"
    ELSE "diagram"

AutoDetect(text) ==
    IF ChartSignal(text) THEN "chart"
    ELSE IF FlowchartSignal(text) THEN "flowchart"
    ELSE "diagram"

\* a variant that falls back to the default kind for an unknown value
HintOrDiagram(preferred_type) ==
    IF preferred_type \in VisualType THEN preferred_type ELSE "diagram"

\* VisualType(preferred_type): the member with that value, or ValueError
HintKind(preferred_type) ==
    IF preferred_type \in VisualType THEN preferred_type ELSE "ValueError"

\* a variant that classifies the text whatever the hint says
DetectFromText(text, preferred_type) == AutoDetect(text)

\* detect_visual_type(text, preferred_type): a kind, or "ValueError"
detect_visual_type(text, preferred_type) ==
    IF preferred_type # "auto" THEN HintKind(preferred_type) ELSE AutoDetect(text)

\* ------------------------------------------------------------------------
\* Flowchart parser: the regular expressions of parse_flowchart.
\* Each takes a stripped line (or a stripped arrow segment).
\* ------------------------------------------------------------------------

\* re.split(r'\s*→\s*|\s*->\s*', line), each piece stripped
ArrowParts(line) == MapSeq(Strip, SplitAt(line, IsArrow, <<>>))

\* r'\b(yes|no)\s*:' in the line
HasBranch(line) == HasYesNo(line)

\* r'^(yes|no)\s*:' at the start of a segment
StartsYesNo(part) ==
    /\ Len(part) >= 2
    /\ Lower(part[1]) \in {"yes", "no"}
    /\ SkipSpace(part, 2) <= Len(part)
    /\ part[SkipSpace(part, 2)] = ":"

\* r'\b(start|begin|end|finish)\b'
TerminalKeywords == {"start", "begin", "end", "finish"}
IsTerminal(label) == \E i \in 1..Len(label) : Lower(label[i]) \in TerminalKeywords

\* '?' in label or r'\b(decision|check|validate|verify)\b'
DecisionKeywords == {"decision", "check", "validate", "verify"}
IsDecision(label) ==
    \E i \in 1..Len(label) : label[i] = "?" \/ Lower(label[i]) \in DecisionKeywords

\* "terminal" if is_terminal else "process"
BranchType(label) == IF IsTerminal(label) THEN "terminal" ELSE "process"

\* "decision" if is_decision else ("terminal" if is_terminal else "process")
NodeType(label) == IF IsDecision(label) THEN "decision" ELSE BranchType(label)

\* the indexes of a word w that stands between blanks, after index a
WordBetweenBlanks(line, w, a) ==
    { j \in (a + 2)..(Len(line) - 2) :
        Lower(line[j]) = w /\ IsSpace(line[j - 1]) /\ IsSpace(line[j + 1]) }

\* r'^if\s+(.+?)\s+then\s+(.+?)(?:\s+else\s+(.+))?$', re.IGNORECASE:
\* the three groups, stripped; the lazy groups end at the first "then" and
\* the first "else" that stand between blanks.
IfThenMatch(line) ==
    LET a == SkipSpace(line, 2)
        thens == WordBetweenBlanks(line, "then", a)
    IN  IF Len(line) >= 2 /\ Lower(line[1]) = "if" /\ IsSpace(line[2]) /\ thens # {}
        THEN LET j == Min(thens)
                 b == SkipSpace(line, j + 1)
                 elses == WordBetweenBlanks(line, "else", b)
             IN  [ok |-> TRUE,
                  condition |-> Slice(line, a, SkipSpaceBack(line, j - 1)),
                  then_action |->
                      IF elses = {} THEN Slice(line, b, Len(line))
                      ELSE Slice(line, b, SkipSpaceBack(line, Min(elses) - 1)),
                  else_action |->
                      IF elses = {} THEN <<>>
                      ELSE Slice(line, SkipSpace(line, Min(elses) + 1), Len(line))]
        ELSE [ok |-> FALSE, condition |-> <<>>, then_action |-> <<>>,
              else_action |-> <<>>]

\* r'^yes\s*:\s*(.+?)(?=\s+no\s*:|$)', re.IGNORECASE: the group, stripped
YesMatch(line) ==
    LET c  == SkipSpace(line, 2)
        b  == SkipSpace(line, c + 1)
        nos == { n \in (b + 2)..Len(line) :
                   /\ Lower(line[n]) = "no" /\ IsSpace(line[n - 1])
                   /\ SkipSpace(line, n + 1) <= Len(line)
                   /\ line[SkipSpace(line, n + 1)] = ":" }
    IN  IF /\ Len(line) >= 2 /\ Lower(line[1]) = "yes"
           /\ c <= Len(line) /\ line[c] = ":" /\ b <= Len(line)
        THEN [ok |-> TRUE,
              path |-> IF nos = {} THEN Slice(line, b, Len(line))
                       ELSE Slice(line, b, SkipSpaceBack(line, Min(nos) - 1))]
        ELSE [ok |-> FALSE, path |-> <<>>]

\* r'no\s*:\s*(.+?)$', re.IGNORECASE, searched anywhere in the line (no \b:
\* "Casino: x" matches): the group of the leftmost match, stripped
NoMatch(line) ==
    LET at == { n \in 1..Len(line) :
                  /\ EndsWithNo(line[n])
                  /\ SkipSpace(line, n + 1) <= Len(line)
                  /\ line[SkipSpace(line, n + 1)] = ":"
                  /\ SkipSpace(line, SkipSpace(line, n + 1) + 1) <= Len(line) }
    IN  IF at # {}
        THEN [ok |-> TRUE,
              path |-> Slice(line, SkipSpace(line, SkipSpace(line, Min(at) + 1) + 1),
                             Len(line))]
        ELSE [ok |-> FALSE, path |-> <<>>]

\* r'^step\s*\d+\s*:\s*(.+)$', re.IGNORECASE: the label of a plain line
StepLabel(line) ==
    LET d == SkipSpace(line, 2)
        c == SkipSpace(line, d + 1)
        b == SkipSpace(line, c + 1)
    IN  IF /\ Len(line) >= 2 /\ Lower(line[1]) = "step"
           /\ d <= Len(line) /\ IsNum(line[d])
           /\ c <= Len(line) /\ line[c] = ":" /\ b <= Len(line)
        THEN Slice(line, b, Len(line))
        ELSE line

\* "end" in n.label.lower(): a substring test, so "Send" holds it too
HasEndSubstring(label) ==
    \E i \in 1..Len(label) : Lower(label[i]) \in {"end", "send"}

\* ------------------------------------------------------------------------
\* Flowchart parser: the locals of one parse_flowchart call, as a record
\*   nodes, edges, node_map, node_id_counter        (lines 97-100)
\*   sequential_candidates, last_decision, decision_to_branches,
\*   last_non_decision, decision_prev_map           (lines 114-118)
\* A dict is a function whose DOMAIN is the set of its keys.
\* ------------------------------------------------------------------------

\* f"node_{n}"
NodeIdOf(n) == <<"node_", ToString(n)>>

\* Edge(from_node, to_node, label=None)
Edge(from_node, to_node, label) ==
    [from |-> from_node, to |-> to_node, label |-> label]

EmptyDict == [k \in {} |-> <<>>]

\* d[k] = v
DictPut(d, k, v) == [x \in DOMAIN d \cup {k} |-> IF x = k THEN v ELSE d[x]]

\* d.get(k)
DictGet(d, k) == IF k \in DOMAIN d THEN d[k] ELSE None

\* a variant in which the counter outlives the call
CounterKept(prev) == prev

\* node_id_counter = 0 (line 100); prev is what the counter held before the call
CounterAtEntry(prev) == 0

\* the locals as parse_flowchart sets them up before its line loop
FlowLocals(prev) ==
    [nodes |-> <<>>, edges |-> <<>>, node_map |-> EmptyDict,
     node_id_counter |-> CounterAtEntry(prev),
     sequential_candidates |-> <<>>, last_decision |-> None,
     decision_to_branches |-> EmptyDict, last_non_decision |-> None,
     decision_prev_map |-> EmptyDict]

\* a variant of add_node that makes a node for every mention
FlowAddNodeAlways(st, label, node_type) ==
    [st EXCEPT
        !.nodes = Append(@, [id |-> NodeIdOf(st.node_id_counter),
                             label |-> label, type |-> node_type]),
        !.node_id_counter = @ + 1,
        !.node_map = DictPut(@, label, NodeIdOf(st.node_id_counter))]

\* add_node(label, node_type) of parse_flowchart: the locals afterwards
FlowAddNode(st, label, node_type) ==
    IF label \notin DOMAIN st.node_map
    THEN [st EXCEPT
            !.nodes = Append(@, [id |-> NodeIdOf(st.node_id_counter),
                                 label |-> label, type |-> node_type]),
            !.node_id_counter = @ + 1,
            !.node_map = DictPut(@, label, NodeIdOf(st.node_id_counter))]
    ELSE st

\* if label not in decision_to_branches: decision_to_branches[label] = set()
EnsureBranches(st, label) ==
    IF label \in DOMAIN st.decision_to_branches THEN st
    ELSE [st EXCEPT !.decision_to_branches = DictPut(@, label, {})]

\* decision_to_branches[label].add(which)
AddBranch(st, label, which) ==
    LET s1 == EnsureBranches(st, label)
    IN  [s1 EXCEPT !.decision_to_branches =
            DictPut(@, label, s1.decision_to_branches[label] \cup {which})]

\* if last_non_decision: decision_prev_map[label] = last_non_decision
NotePrev(st, label) ==
    IF st.last_non_decision # None
    THEN [st EXCEPT !.decision_prev_map = DictPut(@, label, st.last_non_decision)]
    ELSE st

\* a variant that keeps the first decision it has seen
KeepFirstDecision(st, label) ==
    IF st.last_decision = None THEN [st EXCEPT !.last_decision = label] ELSE st

\* last_decision = label, as every decision form of the line loop sets it
SetLastDecision(st, label) == [st EXCEPT !.last_decision = label]

\* one action of an if/then/else form: its node and its Yes or No edge
IfAction(st, decision_label, action, which) ==
    IF action # <<>>
    THEN LET s1 == FlowAddNode(st, action, BranchType(action))
             s2 == [s1 EXCEPT !.edges =
                       Append(@, Edge(s1.node_map[decision_label],
                                      s1.node_map[action], which))]
         IN  AddBranch(s2, decision_label, which)
    ELSE st

\* a variant that appends "?" to every condition
AlwaysSuffixed(condition) == Append(condition, "?")

\* decision_label = condition if condition.endswith('?') else condition + '?'
DecisionLabelOf(condition) ==
    IF condition # <<>> /\ condition[Len(condition)] = "?"
    THEN condition ELSE Append(condition, "?")

\* lines 132-160 (a whole line) and 237-268 (an arrow segment, which also
\* notes the previous non-decision node)
IfThenForm(st, m, in_arrow) ==
    LET decision_label == DecisionLabelOf(m.condition)
        s1 == FlowAddNode(st, decision_label, "decision")
        s2 == SetLastDecision(s1, decision_label)
        s3 == EnsureBranches(s2, decision_label)
        s4 == IF in_arrow THEN NotePrev(s3, decision_label) ELSE s3
        s5 == IfAction(s4, decision_label, m.then_action, "Yes")
    IN  IfAction(s5, decision_label, m.else_action, "No")

\* the source of a Yes/No edge of a standalone branch line (lines 176-178):
\* decision_id = node_map.get(decision_source), an edge only if it is found
BranchSourceLine(st) == DictGet(st.node_map, st.last_decision)

\* the source of a Yes/No edge of a branch segment in an arrow chain
\* (lines 284, 297): Edge(decision_source, ...), the label itself
BranchSourceArrow(st) == st.last_decision

\* a variant that takes a branch for sourced when no decision was seen
AnySource(st) == TRUE

\* "if decision_source" of lines 171, 186, 279 and 292: a decision was seen
HasDecisionSource(st) == st.last_decision # None

\* one branch of a Yes/No form: lines 168-181 / 183-196 (standalone line)
\* and 276-287 / 289-300 (arrow segment)
BranchForm(st, m, which, in_arrow) ==
    IF m.ok /\ HasDecisionSource(st) /\ m.path # <<>>
    THEN LET s1 == FlowAddNode(st, m.path, BranchType(m.path))
             src == IF in_arrow THEN BranchSourceArrow(s1) ELSE BranchSourceLine(s1)
             s2 == IF in_arrow \/ src # None
                   THEN [s1 EXCEPT !.edges =
                            Append(@, Edge(src, s1.node_map[m.path], which))]
                   ELSE s1
         IN  AddBranch(s2, st.last_decision, which)
    ELSE st

\* lines 163-197: a standalone Yes/No branch line
BranchLine(st, line) ==
    BranchForm(BranchForm(st, YesMatch(line), "Yes", FALSE),
               NoMatch(line), "No", FALSE)

\* what a plain node does to the carried state (lines 215-222, 312-319)
NoteNode(st, label) ==
    IF IsDecision(label)
    THEN NotePrev(EnsureBranches(SetLastDecision(st, label), label), label)
    ELSE [st EXCEPT !.last_non_decision = label]

\* lines 199-225: a plain sequential line
PlainLine(st, line) ==
    LET label == StepLabel(line)
        s1 == FlowAddNode(st, label, NodeType(label))
        s2 == NoteNode(s1, label)
    IN  [s2 EXCEPT !.sequential_candidates = Append(@, label)]

\* lines 302-326: a plain segment i of an arrow chain
RegularPart(st, parts, i) ==
    LET part == parts[i]
        s1 == FlowAddNode(st, part, NodeType(part))
        s2 == NoteNode(s1, part)
    IN  IF i < Len(parts) /\ ~StartsYesNo(parts[i + 1])
        THEN LET s3 == FlowAddNode(s2, parts[i + 1], "process")
             IN  [s3 EXCEPT !.edges =
                     Append(@, Edge(s3.node_map[part],
                                    s3.node_map[parts[i + 1]], "None"))]
        ELSE s2

\* lines 228-326: segment i of an arrow chain
ArrowPart(st, parts, i) ==
    LET part == parts[i]
    IN  IF part = <<>> THEN st
        ELSE IF IfThenMatch(part).ok THEN IfThenForm(st, IfThenMatch(part), TRUE)
        ELSE IF YesMatch(part).ok \/ NoMatch(part).ok
             THEN BranchForm(BranchForm(st, YesMatch(part), "Yes", TRUE),
                             NoMatch(part), "No", TRUE)
        ELSE RegularPart(st, parts, i)

RECURSIVE ArrowLoop(_, _, _)
ArrowLoop(st, parts, i) ==
    IF i > Len(parts) THEN st ELSE ArrowLoop(ArrowPart(st, parts, i), parts, i + 1)

\* lines 121-326: one iteration of the line loop
FlowLine(st, line) ==
    LET has_arrow == Len(ArrowParts(line)) > 1
        has_branch == HasBranch(line)
    IN  IF IfThenMatch(line).ok THEN IfThenForm(st, IfThenMatch(line), FALSE)
        ELSE IF has_branch /\ ~has_arrow THEN BranchLine(st, line)
        ELSE IF ~has_arrow /\ ~has_branch THEN PlainLine(st, line)
        ELSE ArrowLoop(st, ArrowParts(line), 1)

\* next((x for x in s if P(x)), None): the index of the first such x, 0 if none
FirstIndex(s, P(_)) ==
    IF \E i \in 1..Len(s) : P(s[i])
    THEN Min({ i \in 1..Len(s) : P(s[i]) })
    ELSE 0

\* a variant that never finds an edge present
NoEdgeYet(edges, a, b) == FALSE

\* any(e.from_node == a and e.to_node == b for e in edges)
HasEdge(edges, a, b) == \E i \in 1..Len(edges) : edges[i].from = a /\ edges[i].to = b

\* lines 335-366: the connection repair for one decision node
RepairDecision(st, decision) ==
    LET IsYes(e) == e.from = decision.id /\ e.label = "Yes"
        IsNo(e)  == e.from = decision.id /\ e.label = "No"
        y == FirstIndex(st.edges, IsYes)
        n == FirstIndex(st.edges, IsNo)
    IN  IF y = 0 \/ n = 0 THEN st
        ELSE
        LET yes_to_id == st.edges[y].to
            no_to_id  == st.edges[n].to
            IsEnd(nd) == nd.type = "terminal" /\ HasEndSubstring(nd.label)
            e  == FirstIndex(st.nodes, IsEnd)
            s1 == IF e # 0 /\ ~HasEdge(st.edges, yes_to_id, st.nodes[e].id)
                  THEN [st EXCEPT !.edges =
                           Append(@, Edge(yes_to_id, st.nodes[e].id, "None"))]
                  ELSE st
            IsIt(l) == l = decision.label
            k  == FirstIndex(st.sequential_candidates, IsIt)
        IN  IF k >= 1 /\ k < Len(st.sequential_candidates)
               /\ st.sequential_candidates[k + 1] \in DOMAIN st.node_map
               /\ ~HasEdge(s1.edges, no_to_id,
                           st.node_map[st.sequential_candidates[k + 1]])
            THEN [s1 EXCEPT !.edges =
                     Append(@, Edge(no_to_id,
                                    st.node_map[st.sequential_candidates[k + 1]],
                                    "None"))]
            ELSE s1

\* lines 332-366: the repair pass, over the decision nodes in node order
RECURSIVE RepairLoop(_, _)
RepairLoop(st, i) ==
    IF i > Len(st.nodes) THEN st
    ELSE RepairLoop(IF st.nodes[i].type = "decision"
                    THEN RepairDecision(st, st.nodes[i]) ELSE st, i + 1)

RepairPass(st) == RepairLoop(st, 1)

\* a variant whose final pass skips no pair
SkipsNothing(from_node) == FALSE

\* line 380-381: the final pass skips a backbone pair whose source is a decision
SkipsSource(from_node) == from_node.type = "decision"

\* lines 370-385: the final pass for the backbone pair (i, i+1)
SequentialPair(st, i) ==
    LET from_label == st.sequential_candidates[i]
        to_label   == st.sequential_candidates[i + 1]
        IsFrom(nd) == nd.label = from_label
        f == FirstIndex(st.nodes, IsFrom)
    IN  IF from_label \in DOMAIN st.node_map /\ to_label \in DOMAIN st.node_map
        THEN IF \/ HasEdge(st.edges, st.node_map[from_label], st.node_map[to_label])
                \/ (f # 0 /\ SkipsSource(st.nodes[f]))
             THEN st
             ELSE [st EXCEPT !.edges =
                      Append(@, Edge(st.node_map[from_label],
                                     st.node_map[to_label], "None"))]
        ELSE st

\* lines 369-385: the final pass over the backbone
RECURSIVE SequentialLoop(_, _)
SequentialLoop(st, i) ==
    IF i >= Len(st.sequential_candidates) THEN st
    ELSE SequentialLoop(SequentialPair(st, i), i + 1)

\* a variant whose final pass stops after the first backbone pair
FirstPairOnly(st) ==
    IF Len(st.sequential_candidates) >= 2 THEN SequentialPair(st, 1) ELSE st

SequentialPass(st) == SequentialLoop(st, 1)

\* lines 387-390: the returned dict
FlowResult(st) == [nodes |-> st.nodes, edges |-> st.edges]

\* the line loop of lines 121-326 over all lines
RECURSIVE FlowLines(_, _)
FlowLines(st, lines) ==
    IF lines = <<>> THEN st ELSE FlowLines(FlowLine(st, Head(lines)), Tail(lines))

\* parse_flowchart(text), run from entry to return without interruption
parse_flowchart(text) ==
    FlowResult(SequentialPass(RepairPass(FlowLines(FlowLocals(0), SplitLines(text)))))

\* ------------------------------------------------------------------------
\* Diagram parser: parse_diagram
\* ------------------------------------------------------------------------

\* re.sub(r'\s+', ' ', s): every run of blanks becomes one blank
RECURSIVE Collapse(_)
Collapse(s) ==
    IF s = <<>> THEN <<>>
    ELSE IF IsSpace(Head(s))
         THEN <<" ">> \o Collapse(Slice(s, SkipSpace(s, 1), Len(s)))
         ELSE <<Head(s)>> \o Collapse(Tail(s))

\* canon(s) = re.sub(r'\s+', ' ', s.strip())
canon(s) == Collapse(Strip(s))

\* the leading words of r'^(the|a|an)\s+'
Articles == {"the", "a", "an"}

\* clean_entity(s) = re.sub(r'^(the|a|an)\s+', '', canon(s), flags=re.IGNORECASE)
clean_entity(s) ==
    LET c == canon(s)
    IN  IF Len(c) >= 2 /\ Lower(c[1]) \in Articles /\ IsSpace(c[2])
        THEN Slice(c, SkipSpace(c, 2), Len(c))
        ELSE c

\* the key under which add_node of parse_diagram files a label (line 406)
NodeKey(label) == canon(label)

\* nodes, edges, node_set, edge_set as parse_diagram sets them up (394-397)
DiagramLocals ==
    [nodes |-> <<>>, edges |-> <<>>, node_set |-> {}, edge_set |-> {}]

\* the test of line 409 that lets add_node append a node
IsNewNode(st, key) == key \notin st.node_set

\* add_node(label) of parse_diagram: the locals afterwards (its return value
\* is the key, or None for an empty key)
DiagAddNode(st, label) ==
    LET key == NodeKey(label)
    IN  IF key = <<>> THEN st
        ELSE IF IsNewNode(st, key)
        THEN [st EXCEPT
                !.nodes = Append(@, [id |-> NodeIdOf(Len(st.nodes)), label |-> key]),
                !.node_set = @ \cup {key}]
        ELSE st

\* f"{from_label} -> {to_label}"
EdgeKey(from_label, to_label) == from_label \o <<" ", "->", " ">> \o to_label

\* a variant whose add_edge never finds the edge present
EveryEdgeNew(st, from_label, to_label) == TRUE

\* the test of line 418 that lets add_edge append an edge
IsNewEdge(st, from_label, to_label) == EdgeKey(from_label, to_label) \notin st.edge_set

\* add_edge(from_label, to_label)
DiagAddEdge(st, from_label, to_label) ==
    IF IsNewEdge(st, from_label, to_label)
    THEN [st EXCEPT
            !.edges = Append(@, [from |-> from_label, to |-> to_label]),
            !.edge_set = @ \cup {EdgeKey(from_label, to_label)}]
    ELSE st

\* from_label = add_node(a); to_label = add_node(b);
\* if from_label and to_label: add_edge(from_label, to_label)
Relate(st, a, b) ==
    LET s2 == DiagAddNode(DiagAddNode(st, a), b)
    IN  IF NodeKey(a) # <<>> /\ NodeKey(b) # <<>>
        THEN DiagAddEdge(s2, NodeKey(a), NodeKey(b))
        ELSE s2

RECURSIVE RelateChain(_, _, _)
RelateChain(st, parts, i) ==
    IF i >= Len(parts) THEN st
    ELSE RelateChain(Relate(st, parts[i], parts[i + 1]), parts, i + 1)

\* re.search(r'[→-]>', line) or '→' in line or '->' in line
HasArrow(line) == \E i \in 1..Len(line) : IsArrow(line[i])

\* lines 425-432: the arrow pass for one line
DiagArrowLine(st, line) ==
    IF HasArrow(line) THEN RelateChain(st, SplitAt(line, IsArrow, <<>>), 1) ELSE st

\* re.split(r'[\n\.;]+|,\s*(?=[A-Z0-9])', text): the separators
RECURSIVE SplitPhrases(_, _)
SplitPhrases(s, cur) ==
    IF s = <<>> THEN <<cur>>
    ELSE IF \/ Head(s) \in {"\n", ".", ";"}
            \/ /\ Head(s) = ","
               /\ SkipSpace(s, 2) <= Len(s)
               /\ StartsUpperOrDigit(s[SkipSpace(s, 2)])
         THEN <<cur>> \o SplitPhrases(Tail(s), <<>>)
         ELSE SplitPhrases(Tail(s), Append(cur, Head(s)))

\* phrases = [p.strip() for p in phrases if p.strip()]
Phrases(text) == FilterSeq(NonEmpty, MapSeq(Strip, SplitPhrases(text, <<>>)))

\* verb_patterns (lines 438-446): per pattern, the word sequences its verb
\* part can be, an optional word taken first
verb_patterns ==
    << { <<"connects", "to">> },
       { <<"sends", "request", "to">>, <<"sends", "to">> },
       { <<"routes", "to">> },
       { <<"links", "to">> },
       { <<"queries">> },
       { <<"returns", "data", "to">>, <<"returns", "response", "to">>,
         <<"returns", "to">> },
       { <<"sends", "data", "to">> } >>

\* r'\s+w1\s+w2...\s+' at index k of the phrase: the index after it, 0 if
\* it does not match there
RECURSIVE VerbEnd(_, _, _)
VerbEnd(phrase, k, words) ==
    IF k > Len(phrase) \/ ~IsSpace(phrase[k]) THEN 0
    ELSE LET j == SkipSpace(phrase, k)
         IN  IF words = <<>> THEN j
             ELSE IF j <= Len(phrase) /\ Lower(phrase[j]) = Head(words)
                  THEN VerbEnd(phrase, j + 1, Tail(words))
                  ELSE 0

\* re.match(r'^(.+?)\s+<verb>\s+(.+)$', phrase, re.IGNORECASE) for one
\* pattern: the two groups; the lazy first group ends at the first match
VerbMatch(phrase, alts) ==
    LET Ends(k) == { VerbEnd(phrase, k, w) : w \in alts } \ {0}
        at == { k \in 2..Len(phrase) :
                  \E e \in Ends(k) : e <= Len(phrase) }
    IN  IF at = {} THEN [ok |-> FALSE, from |-> <<>>, to |-> <<>>]
        ELSE [ok |-> TRUE,
              from |-> Slice(phrase, 1, Min(at) - 1),
              to |-> Slice(phrase, Max(Ends(Min(at))), Len(phrase))]

\* lines 448-458: the verb-phrase pass for one phrase, first pattern wins
RECURSIVE DiagPhrase(_, _, _)
DiagPhrase(st, phrase, p) ==
    IF p > Len(verb_patterns) THEN st
    ELSE LET m == VerbMatch(phrase, verb_patterns[p])
         IN  IF m.ok
             THEN Relate(st, clean_entity(m.from), clean_entity(m.to))
             ELSE DiagPhrase(st, phrase, p + 1)

RECURSIVE DiagArrowPass(_, _)
DiagArrowPass(st, lines) ==
    IF lines = <<>> THEN st
    ELSE DiagArrowPass(DiagArrowLine(st, Head(lines)), Tail(lines))

RECURSIVE DiagVerbPass(_, _)
DiagVerbPass(st, phrases) ==
    IF phrases = <<>> THEN st
    ELSE DiagVerbPass(DiagPhrase(st, Head(phrases), 1), Tail(phrases))

\* line 460: the returned dict
DiagramResult(st) == [nodes |-> st.nodes, edges |-> st.edges]

\* parse_diagram(text), run from entry to return without interruption
parse_diagram(text) ==
    DiagramResult(DiagVerbPass(DiagArrowPass(DiagramLocals, SplitLines(text)),
                               Phrases(text)))

\* ------------------------------------------------------------------------
\* Chart parser: parse_chart
\* ------------------------------------------------------------------------

\* int(t) of a number lexeme
NumVal(t) ==
    CASE t = "0" -> 0 [] t = "1" -> 1 [] t = "2" -> 2 [] t = "3" -> 3
      [] t = "5" -> 5 [] t = "10" -> 10 [] OTHER -> 0

\* float("0." + t) of a number lexeme, in tenths ("10" reads .10)
FracTenths(t) == IF t = "10" THEN 1 ELSE NumVal(t)

\* r'([^:=]+)\s*[:=]\s*(\d+(?:\.\d+)?)' matched at the start of a line:
\* the label, stripped, and float(group 2) in tenths
ChartMatch(line) ==
    LET IsSepAt(i) == line[i] \in {":", "="}
        seps == { i \in 1..Len(line) : IsSepAt(i) }
        c == IF seps = {} THEN 0 ELSE Min(seps)
        v == SkipSpace(line, c + 1)
    IN  IF c >= 2 /\ v <= Len(line) /\ IsNum(line[v])
        THEN [ok |-> TRUE,
              label |-> Strip(Slice(line, 1, c - 1)),
              value |->
                  10 * NumVal(line[v])
                  + (IF v + 2 <= Len(line) /\ line[v + 1] = "." /\ IsNum(line[v + 2])
                     THEN FracTenths(line[v + 2]) ELSE 0)]
        ELSE [ok |-> FALSE, label |-> <<>>, value |-> 0]

\* a variant that keeps one point per label
ChartLineDedup(data, line) ==
    IF ChartMatch(line).ok
          /\ \A i \in 1..Len(data) : data[i].label # ChartMatch(line).label
    THEN Append(data, [label |-> ChartMatch(line).label,
                       value |-> ChartMatch(line).value])
    ELSE data

\* lines 467-473: one iteration of the loop of parse_chart
ChartLine(data, line) ==
    IF ChartMatch(line).ok
    THEN Append(data, [label |-> ChartMatch(line).label,
                       value |-> ChartMatch(line).value])
    ELSE data

RECURSIVE ChartLines(_, _)
ChartLines(data, lines) ==
    IF lines = <<>> THEN data ELSE ChartLines(ChartLine(data, Head(lines)), Tail(lines))

\* parse_chart(text), run from entry to return without interruption
parse_chart(text) == ChartLines(<<>>, SplitLines(text))

\* ------------------------------------------------------------------------
\* Flowchart layout: _calculate_flowchart_layout
\* ------------------------------------------------------------------------

\* adj_list.get(id, []): the edges out of id, in edge order (lines 776-781)
Children(edges, id) ==
    LET From(e) == e.from = id IN FilterSeq(From, edges)

\* lines 771-773: the first node that no edge points to, else the first node
StartNode(nodes, edges) ==
    LET Free(nd) == \A i \in 1..Len(edges) : edges[i].to # nd.id
    IN  IF FirstIndex(nodes, Free) # 0 THEN nodes[FirstIndex(nodes, Free)]
        ELSE nodes[1]

\* the node with this id: node_map[id] of line 794
NodeById(nodes, id) ==
    LET Is(nd) == nd.id = id IN nodes[FirstIndex(nodes, Is)]

\* lines 818-821 and 824-829: every child in turn, one row down
RECURSIVE EnqueueAll(_, _, _, _)
EnqueueAll(children, i, cur, spread) ==
    IF i > Len(children) THEN <<>>
    ELSE <<[id |-> children[i].to,
            col |-> IF spread THEN cur.col + (IF i = 1 THEN 1 ELSE -1) ELSE cur.col,
            row |-> cur.row + 1]>>
         \o EnqueueAll(children, i + 1, cur, spread)

\* a variant that queues every child in the column of its parent
EnqueuedBelow(node, children, cur) == EnqueueAll(children, 1, cur, FALSE)

\* lines 802-829: what visiting cur appends to the queue
Enqueued(node, children, cur) ==
    LET IsYes(c) == c.label = "Yes"
        IsNo(c)  == c.label = "No"
        y == FirstIndex(children, IsYes)
        n == FirstIndex(children, IsNo)
    IN  IF node.type = "decision" /\ children # <<>>
        THEN IF y # 0 /\ n # 0
             THEN << [id |-> children[y].to, col |-> cur.col + 1, row |-> cur.row + 1],
                     [id |-> children[n].to, col |-> cur.col - 1, row |-> cur.row + 1] >>
             ELSE EnqueueAll(children, 1, cur, TRUE)
        ELSE EnqueueAll(children, 1, cur, FALSE)

\* lines 766-786: the locals when the loop is entered
LayoutLocals(nodes, edges) ==
    [layout |-> EmptyDict, visited |-> {}, max_row |-> 0,
     queue |-> <<[id |-> StartNode(nodes, edges).id, col |-> 0, row |-> 0]>>]

\* a variant that takes no node for visited
NeverSeen(L, id) == FALSE

\* lines 790-791: if current["id"] in visited: continue
Seen(L, id) == id \in L.visited

\* lines 789-829: one iteration of the breadth-first loop.  L is the locals:
\* layout (a dict id -> [col, row]), visited, queue, max_row.
BfsStep(nodes, edges, L) ==
    LET cur == Head(L.queue)
    IN  IF Seen(L, cur.id)
        THEN [L EXCEPT !.queue = Tail(@)]
        ELSE [layout |-> DictPut(L.layout, cur.id, [col |-> cur.col, row |-> cur.row]),
              visited |-> L.visited \cup {cur.id},
              max_row |-> IF cur.row > L.max_row THEN cur.row ELSE L.max_row,
              queue |-> Tail(L.queue)
                  \o Enqueued(NodeById(nodes, cur.id), Children(edges, cur.id), cur)]

\* line 788: while queue
RECURSIVE BfsLoop(_, _, _)
BfsLoop(nodes, edges, L) ==
    IF L.queue = <<>> THEN L
    ELSE BfsLoop(nodes, edges, BfsStep(nodes, edges, L))

\* a variant that places no node the loop did not reach
LeaveOrphans(nodes, i, L) == L

\* lines 832-840: the nodes the loop did not reach, one per row below
RECURSIVE PlaceOrphans(_, _, _)
PlaceOrphans(nodes, i, L) ==
    IF i > Len(nodes) THEN L
    ELSE IF nodes[i].id \in DOMAIN L.layout THEN PlaceOrphans(nodes, i + 1, L)
    ELSE PlaceOrphans(nodes, i + 1,
            [L EXCEPT !.layout = DictPut(@, nodes[i].id, [col |-> 0, row |-> L.max_row + 1]),
                      !.max_row = @ + 1])

\* a variant that returns the columns as the loop left them
NoShift(layout) == layout

\* lines 843-846: columns shifted so that the least is 0
ShiftColumns(layout) ==
    LET min_col == Min({ layout[k].col : k \in DOMAIN layout })
    IN  IF min_col < 0
        THEN [k \in DOMAIN layout |-> [layout[k] EXCEPT !.col = @ - min_col]]
        ELSE layout

\* _calculate_flowchart_layout(nodes, edges), for a non-empty node list
calculate_flowchart_layout(nodes, edges) ==
    ShiftColumns(PlaceOrphans(nodes, 1,
                     BfsLoop(nodes, edges, LayoutLocals(nodes, edges))).layout)

\* ------------------------------------------------------------------------
\* Renderers.  Markup is modelled by what it draws: "" is [tag |-> "empty"],
\* an <svg> element is a record of its size and its shapes in document order.
\* ------------------------------------------------------------------------

EmptyMarkup == [tag |-> "empty"]

\* a variant whose renderers never take the early return
NeverEmpty(coll) == FALSE

\* "if not nodes" / "if not data" (lines 482, 528, 599): the early return
IsEmptyData(coll) == coll = <<>>

\* _draw_flowchart_node: x and y of lines 852-853, and the shape by type
DrawFlowNode(node, pos) ==
    [x |-> 100 + pos.col * 220, y |-> 100 + pos.row * 140,
     shape |-> IF node.type = "decision" THEN "diamond"
               ELSE IF node.type = "terminal" THEN "rounded" ELSE "rectangle",
     label |-> node.label]

\* _draw_flowchart_edge: the end points of the path (lines 890-923) and the
\* label badge
DrawFlowEdge(from_pos, from_node, to_pos, edge) ==
    [from_x |-> from_pos.col * 220 + 100
                + (IF from_node.type = "decision" /\ edge.label = "No" THEN 0 ELSE 90),
     from_y |-> from_pos.row * 140 + 100
                + (IF from_node.type = "decision" THEN 35 ELSE 70),
     to_x |-> to_pos.col * 220 + 100 + 90,
     to_y |-> to_pos.row * 140 + 100,
     label |-> edge.label]

\* a variant that keeps the least canvas size
FirstOf(a, b) == a

\* max(a, b)
Larger(a, b) == IF a >= b THEN a ELSE b

\* generate_flowchart_svg, lines 488-521: the canvas and the shapes drawn
\* from the layout
FlowchartSvg(data, layout) ==
    LET max_col == Max({ layout[k].col : k \in DOMAIN layout })
        max_row == Max({ layout[k].row : k \in DOMAIN layout })
        Drawn(e) == e.from \in DOMAIN layout /\ e.to \in DOMAIN layout
        EdgeShape(e) == DrawFlowEdge(layout[e.from], NodeById(data.nodes, e.from),
                                     layout[e.to], e)
        HasPos(nd) == nd.id \in DOMAIN layout
        NodeShape(nd) == DrawFlowNode(nd, layout[nd.id])
    IN  [tag |-> "svg",
         width  |-> Larger(1200, (max_col + 1) * 220 + 200),
         height |-> Larger(800, (max_row + 1) * 140 + 200),
         edges |-> MapSeq(EdgeShape, FilterSeq(Drawn, data.edges)),
         nodes |-> MapSeq(NodeShape, FilterSeq(HasPos, data.nodes))]

\* generate_flowchart_svg(data).  _calculate_flowchart_layout evaluates
\* nodes[0] (line 773), which raises IndexError on an empty list.
generate_flowchart_svg(data) ==
    IF IsEmptyData(data.nodes) THEN EmptyMarkup
    ELSE IF data.nodes = <<>> THEN [tag |-> "IndexError"]
    ELSE FlowchartSvg(data, calculate_flowchart_layout(data.nodes, data.edges))

\* generate_diagram_svg(data): node i of n stands at angle 2*pi*i/n - pi/2 of
\* a fixed circle, so a position is the pair (i, n); an edge is drawn between
\* the first nodes that carry its two labels
generate_diagram_svg(data) ==
    IF IsEmptyData(data.nodes) THEN EmptyMarkup
    ELSE
    LET n == Len(data.nodes)
        Slot(label) == LET Is(nd) == nd.label = label IN FirstIndex(data.nodes, Is)
        Drawn(e) == Slot(e.from) # 0 /\ Slot(e.to) # 0
        EdgeShape(e) == [from_slot |-> Slot(e.from) - 1, to_slot |-> Slot(e.to) - 1,
                         of |-> n]
        NodeShape(nd) == [slot |-> Slot(nd.label) - 1, of |-> n, label |-> nd.label]
    IN  [tag |-> "svg", width |-> 1000, height |-> 800,
         edges |-> MapSeq(EdgeShape, FilterSeq(Drawn, data.edges)),
         nodes |-> MapSeq(NodeShape, data.nodes)]

\* max(item["value"] for item in data), line 608
MaxValue(data) == Max({ data[i].value : i \in 1..Len(data) })

\* generate_chart_svg(data): bar i of n; its height is value / max_value *
\* chart_height, kept as the pair <<value * 500, max_value>>.  The division
\* of line 624 raises ZeroDivisionError when max_value is 0, and max() of
\* line 608 raises ValueError on an empty list.
generate_chart_svg(data) ==
    IF IsEmptyData(data) THEN EmptyMarkup
    ELSE IF data = <<>> THEN [tag |-> "ValueError"]
    ELSE IF MaxValue(data) = 0 THEN [tag |-> "ZeroDivisionError"]
    ELSE [tag |-> "svg", width |-> 1000, height |-> 700,
          bars |-> [i \in 1..Len(data) |->
                      [index |-> i - 1, of |-> Len(data),
                       bar_height |-> <<data[i].value * 500, MaxValue(data)>>,
                       label |-> data[i].label, value |-> data[i].value]]]

\* detected_type.value.title()
Title(kind) ==
    CASE kind = "flowchart" -> "Flowchart" [] kind = "diagram" -> "Diagram"
      [] kind = "chart" -> "Chart"

\* the parser generate_html runs for a kind (lines 646-654)
ParserOf(kind) ==
    CASE kind = "flowchart" -> "parse_flowchart" [] kind = "diagram" -> "parse_diagram"
      [] kind = "chart" -> "parse_chart"

\* the renderer generate_html runs for a kind (lines 646-654)
RendererOf(kind) ==
    CASE kind = "flowchart" -> "generate_flowchart_svg"
      [] kind = "diagram" -> "generate_diagram_svg"
      [] kind = "chart" -> "generate_chart_svg"

\* the renderer applied to the parsed data
RenderWith(renderer, data) ==
    CASE renderer = "generate_flowchart_svg" -> generate_flowchart_svg(data)
      [] renderer = "generate_diagram_svg" -> generate_diagram_svg(data)
      [] renderer = "generate_chart_svg" -> generate_chart_svg(data)

\* the parser applied to the text, run without interruption
ParseWith(parser, text) ==
    CASE parser = "parse_flowchart" -> parse_flowchart(text)
      [] parser = "parse_diagram" -> parse_diagram(text)
      [] parser = "parse_chart" -> parse_chart(text)

\* lines 659-764: the document around the svg
HtmlTemplate(kind, svg_content) == [title |-> Title(kind), svg |-> svg_content]

\* what a call leaves behind: a value returned, or an exception raised
Returned(v) == [raised |-> "None", value |-> v]
NoHtml == [title |-> "None"]
Raised(exc) == [raised |-> exc, value |-> NoHtml]

\* generate_html(text, visual_type), run from entry to return without
\* interruption
generate_html(text, visual_type) ==
    LET redacted_text == redact_secrets(text)
        detected_type == detect_visual_type(redacted_text, visual_type)
    IN  IF detected_type \notin VisualType THEN Raised(detected_type)
        ELSE LET svg_content == RenderWith(RendererOf(detected_type),
                                    ParseWith(ParserOf(detected_type), redacted_text))
             IN  IF svg_content.tag \notin {"svg", "empty"} THEN Raised(svg_content.tag)
                 ELSE Returned(HtmlTemplate(detected_type, svg_content))

\* ------------------------------------------------------------------------
\* HTTP front end: generate() of src/api/index.py.  The JSON body is a dict
\* with the keys "text" and "type", either of which may be missing.
\* ------------------------------------------------------------------------

\* data.get(key, default)
GetOr(data, key, default) == IF key \in DOMAIN data THEN data[key] ELSE default

\* jsonify(...) with its status code
Response(status, success, html, type, error) ==
    [status |-> status, success |-> success, html |-> html, type |-> type,
     error |-> error]

\* lines 49-62: the two checks before the compilation
RejectNoData == Response(400, FALSE, NoHtml, "None", "No JSON data provided")
RejectNoText == Response(400, FALSE, NoHtml, "None", "No text provided")

\* lines 67-71 and 73-77: the response for what generate_html left behind
ResponseFor(outcome, visual_type) ==
    IF outcome.raised = "None"
    THEN Response(200, TRUE, outcome.value, visual_type, "None")
    ELSE Response(500, FALSE, NoHtml, "None", outcome.raised)

\* generate() for one request body, run without interruption
generate(data) ==
    IF DOMAIN data = {} THEN RejectNoData
    ELSE IF Strip(GetOr(data, "text", <<>>)) = <<>> THEN RejectNoText
    ELSE ResponseFor(generate_html(GetOr(data, "text", <<>>), GetOr(data, "type", "auto")),
                     GetOr(data, "type", "auto"))

\* ------------------------------------------------------------------------
\* Inputs
\* ------------------------------------------------------------------------

\* the most lines of a flowchart text, a diagram text, a request text
MaxFlowLines == 3
MaxDiagLines == 3
MaxHttpLines == 2
\* the most calls made one after the other on one agent
MaxSeqCalls == 2
\* the requests the HTTP service handles at the same time
NumThreads == 2
\* the most lines of a chart text
MaxChartLines == 3
\* the most lines of a flowchart text of if/then lines and arrow chains
MaxFormLines == 3
\* the most lines of a flowchart text of decisions, branches and end nodes
MaxRepairLines == 4
\* the most lines of a flowchart text that is laid out step by step
MaxLayoutLines == 3

\* every text of at most n lines drawn from a set of lines
TextsOf(lineset, n) ==
    UNION { { JoinLines(ls) : ls \in [1..k -> lineset] } : k \in 0..n }

FlowLineSet ==
    { <<"Start">>, <<"Load">>, <<"End">>, <<"Valid", "?">>,
      <<"Check", " ", "Login">>,
      <<"Yes", ":", " ", "Save">>, <<"No", ":", " ", "End">>,
      <<"Yes", ":", " ", "Load", " ", "No", ":", " ", "Login">>,
      <<"if", " ", "Check", " ", "then", " ", "Save", " ", "else", " ", "Login">>,
      <<"Start", " ", "->", " ", "Verify", "?", " ", "->", " ", "End">>,
      <<"Valid", "?", " ", "->", " ", "Yes", ":", " ", "Load">>,
      <<"Load", " ", "->">>,
      <<"Step", " ", "1", ":", " ", "Load">> }

FlowTexts == TextsOf(FlowLineSet, MaxFlowLines)

DiagLineSet ==
    { <<"Api", " ", "connects", " ", "to", " ", "Db">>,
      <<"Db", " ", "connects", " ", "to", " ", "Api">>,
      <<"Api", " ", "->", " ", "Db">>,
      <<"Db", "->", "Api">>,
      <<"the", " ", "Api", " ", "connects", " ", "to", " ", "Db">>,
      <<"api", " ", "queries", " ", "Db">>,
      <<"Web", " ", " ", "Api", " ", "queries", " ", "The", " ", "Db">>,
      <<"Web", " ", "Api", " ", "->", " ", "the", " ", "Api">>,
      <<"Api", " ", "->", " ", "Db", " ", "->", " ", "Web", " ", " ", "Api">>,
      <<"Api", " ", "->">> }

DiagTexts == TextsOf(DiagLineSet, MaxDiagLines)

HttpLineSet ==
    { <<"Q1", ":", " ", "5">>, <<"Sales", ":", " ", "10">>,
      <<"Sales", ":", " ", "0", " ", "Load", " ", "=", " ", "3">>,
      <<"Jan">>, <<"Start">>, <<"Valid", "?">>, <<"Yes", ":", " ", "Load">>,
      <<"if", " ", "Valid">>, <<"then", " ", "Load">>,
      <<"Api", " ", "connects", " ", "to", " ", "Db">>,
      <<"Token", ":", " ", "5">>, <<" ">> }

HttpTexts == TextsOf(HttpLineSet, MaxHttpLines)

ChartLineSet ==
    { <<"Q1", ":", " ", "5">>, <<"Q2", ":", " ", "10">>, <<"Q1", ":", " ", "3">>,
      <<"Q1", " ", "=", "2", ".", "5">>,
      <<"Sales", ":", " ", "0">>, <<"Jan", "=", "0">>,
      <<"Load">>, <<"Load", ":", " ", "Save">>, <<":", " ", "5">>,
      <<"Sales", " ", "Q2", ":", "1", " ", "Load">> }

ChartTexts == TextsOf(ChartLineSet, MaxChartLines)

\* lines of the if/then form and arrow chains
FormLineSet ==
    { <<"Valid", "?">>, <<"Yes", ":", " ", "Check", "?">>,
      <<"if", " ", "Check", " ", "then", " ", "Save", " ", "else", " ", "Login">>,
      <<"if", " ", "Valid", "?", " ", "then", " ", "Load">>,
      <<"if", " ", "Check", " ", "then", " ", "Yes", ":", " ", "Load">>,
      <<"if", " ", "Check", " ", "then", " ", "Save", " ", "->", " ", "End">>,
      <<"Start", " ", "->", " ", "Verify", "?", " ", "->", " ", "End">>,
      <<"Start", " ", "->", " ", "if", " ", "Check", " ", "then", " ", "Save">>,
      <<"Valid", "?", " ", "->", " ", "Yes", ":", " ", "Load">>,
      <<"Load", " ", "->", " ", "Save">>,
      <<"Check", " ", "Login", " ", "->", " ", "Load">> }

FormTexts == TextsOf(FormLineSet, MaxFormLines)

\* lines with decisions, their branches, end nodes and backbone entries
RepairLineSet ==
    { <<"Valid", "?">>,
      <<"Yes", ":", " ", "Load", " ", "No", ":", " ", "Login">>,
      <<"End">>,
      <<"if", " ", "Check", " ", "then", " ", "Load", " ", "else", " ", "End">>,
      <<"Yes", ":", " ", "Save">>,
      <<"Load">>,
      <<"Load", " ", "->", " ", "End">> }

RepairTexts == TextsOf(RepairLineSet, MaxRepairLines)

\* lines whose graphs have decisions with one and with two branches, nodes
\* with several children, cycles, self-loops, repeated edges and nodes no
\* path reaches
LayoutLineSet ==
    { <<"Valid", "?">>,
      <<"Yes", ":", " ", "Load", " ", "No", ":", " ", "Login">>,
      <<"Yes", ":", " ", "Save">>,
      <<"if", " ", "Check", " ", "then", " ", "Save", " ", "else", " ", "Login">>,
      <<"Load", " ", "->", " ", "Save">>,
      <<"Save", " ", "->", " ", "Load">>,
      <<"Load", " ", "->", " ", "Load">>,
      <<"Load", " ", "->", " ", "End">>,
      <<"Start">>,
      <<"Load">> }

LayoutTexts == TextsOf(LayoutLineSet, MaxLayoutLines)

\* the values of the "type" key: "auto", the three kinds, and values that
\* are no kind
Hints == {"auto", "flowchart", "diagram", "chart", "pie", "Flowchart", ""}

\* the JSON bodies: empty, a text alone, a text with a type
Bodies ==
    {EmptyDict}
        \cup { [k \in {"text"} |-> t] : t \in HttpTexts }
        \cup { [k \in {"text", "type"} |-> IF k = "text" THEN bt[1] ELSE bt[2]] :
                 bt \in HttpTexts \X Hints }

\* the calls made one after the other on one agent: a text and a type
SeqInputs ==
    { <<JoinLines(<< <<"Start">>, <<"Load">> >>), "auto">>,
      <<JoinLines(<< <<"Start">>, <<"Load">> >>), "flowchart">>,
      <<JoinLines(<< <<"Valid", "?">>, <<"Yes", ":", " ", "Save">> >>), "auto">>,
      <<JoinLines(<< <<"Load">>, <<"Save">>, <<"End">> >>), "flowchart">>,
      << <<"Api", " ", "connects", " ", "to", " ", "Db">>, "auto">>,
      << <<"Api", " ", "->", " ", "Db">>, "diagram">>,
      << <<"Q1", ":", " ", "5">>, "auto">>,
      << <<"Load">>, "pie">> }

\* the bodies of the requests handled at the same time
ConcBodies ==
    { [k \in {"text", "type"} |-> IF k = "text" THEN in[1] ELSE in[2]] :
        in \in { <<JoinLines(<< <<"Start">>, <<"Load">> >>), "auto">>,
                 <<JoinLines(<< <<"Valid", "?">>, <<"Yes", ":", " ", "Save">> >>),
                   "flowchart">>,
                 << <<"Api", " ", "connects", " ", "to", " ", "Db">>, "auto">>,
                 << <<"Q1", ":", " ", "5">>, "auto">> } }

\* ------------------------------------------------------------------------
\* State.  A call is one run of generate_html, made by a request thread of
\* the HTTP service or directly; call p works on the locals frame[Frame(p)].
\* ------------------------------------------------------------------------

VARIABLES
    pc,        \* pc[p]: where call p stands
    req,       \* req[p]: the JSON body and the arguments text, visual_type
    loc,       \* loc[p]: the locals of generate_html, the lines left to its parser,
               \* the locals of the layout and the iterations its loop has made
    frame,     \* frame[f]: the collections the parsers build
    ret,       \* ret[p]: what generate_html returned or raised
    response,  \* response[p]: what generate() answered
    ran,       \* ran[p]: the parsers and renderers call p has entered, in order
    history,   \* the <<text, visual_type, outcome>> of the finished calls, in order
    calls      \* the number of calls started on the agent

vars == <<pc, req, loc, frame, ret, response, ran, history, calls>>

Calls == 1..NumThreads

\* a variant in which all calls work on one frame
FrameShared(p) == 1

\* the frame of call p: every call of parse_flowchart, parse_diagram and
\* parse_chart binds its collections anew (lines 97-100, 394-397, 464), so
\* no two calls work on the same ones
Frame(p) == p

NotReturned == [raised |-> "None", value |-> NoHtml]
NoResponse == Response(0, FALSE, NoHtml, "None", "None")
NoRequest == [data |-> EmptyDict, text |-> <<>>, visual_type |-> "auto",
              overlaps |-> FALSE]

\* another call is under way
OthersRunning(p) == \E q \in Calls \ {p} : pc[q] \notin {"idle", "done"}
NoLayout == [layout |-> EmptyDict, visited |-> {}, max_row |-> 0, queue |-> <<>>]
NoLocals == [redacted_text |-> <<>>, detected_type |-> "None", todo |-> <<>>,
             data |-> <<>>, lay |-> NoLayout, iterations |-> 0]
NoFrame == [flow |-> FlowLocals(0), diag |-> DiagramLocals, chart |-> <<>>]

\* agent = VisualAgent() (api/index.py line 19): no call has been made
Init ==
    /\ pc = [p \in Calls |-> "idle"]
    /\ req = [p \in Calls |-> NoRequest]
    /\ loc = [p \in Calls |-> NoLocals]
    /\ frame = [f \in Calls |-> NoFrame]
    /\ ret = [p \in Calls |-> NotReturned]
    /\ response = [p \in Calls |-> NoResponse]
    /\ ran = [p \in Calls |-> <<>>]
    /\ history = <<>>
    /\ calls = 0

\* generate() of api/index.py, lines 46-62: the body is read and checked
HttpGenerate(p, data) ==
    /\ pc[p] = "idle"
    /\ req' = [req EXCEPT ![p] = [data |-> data,
                                  text |-> GetOr(data, "text", <<>>),
                                  visual_type |-> GetOr(data, "type", "auto"),
                                  overlaps |-> OthersRunning(p)]]
    /\ IF DOMAIN data = {}
       THEN /\ response' = [response EXCEPT ![p] = RejectNoData]
            /\ pc' = [pc EXCEPT ![p] = "done"]
       ELSE IF Strip(GetOr(data, "text", <<>>)) = <<>>
       THEN /\ response' = [response EXCEPT ![p] = RejectNoText]
            /\ pc' = [pc EXCEPT ![p] = "done"]
       ELSE /\ response' = [response EXCEPT ![p] = NoResponse]
            /\ pc' = [pc EXCEPT ![p] = "generate_html"]
    /\ ran' = [ran EXCEPT ![p] = <<>>]
    /\ calls' = calls + 1
    /\ UNCHANGED <<loc, frame, ret, history>>

\* a direct call agent.generate_html(text, visual_type)
CallGenerateHtml(p, text, visual_type) ==
    /\ pc[p] = "idle"
    /\ req' = [req EXCEPT ![p] =
                  [data |-> [k \in {"text", "type"} |->
                                IF k = "text" THEN text ELSE visual_type],
                   text |-> text, visual_type |-> visual_type,
                   overlaps |-> OthersRunning(p)]]
    /\ pc' = [pc EXCEPT ![p] = "generate_html"]
    /\ ran' = [ran EXCEPT ![p] = <<>>]
    /\ calls' = calls + 1
    /\ UNCHANGED <<loc, frame, ret, response, history>>

\* generate_html, lines 642-643: redaction, then the classifier
Detect(p) ==
    /\ pc[p] = "generate_html"
    /\ LET redacted_text == redact_secrets(req[p].text)
           detected_type == detect_visual_type(redacted_text, req[p].visual_type)
       IN  /\ loc' = [loc EXCEPT ![p] =
                         [redacted_text |-> redacted_text,
                          detected_type |-> detected_type,
                          todo |-> <<>>, data |-> <<>>,
                          lay |-> NoLayout, iterations |-> 0]]
           /\ IF detected_type \in VisualType
              THEN /\ pc' = [pc EXCEPT ![p] = "parse"]
                   /\ ret' = [ret EXCEPT ![p] = NotReturned]
              ELSE /\ pc' = [pc EXCEPT ![p] = "returned"]
                   /\ ret' = [ret EXCEPT ![p] = Raised(detected_type)]
    /\ UNCHANGED <<req, frame, response, ran, history, calls>>

\* generate_html, lines 646-654: the parser of the kind is entered and sets
\* up its locals (lines 97-119, 394-397, 464-465)
EnterParser(p) ==
    /\ pc[p] = "parse"
    /\ LET kind == loc[p].detected_type
       IN  /\ ran' = [ran EXCEPT ![p] = Append(@, ParserOf(kind))]
           /\ frame' = [frame EXCEPT ![Frame(p)] =
                 CASE kind = "flowchart" ->
                          [@ EXCEPT !.flow = FlowLocals(@.node_id_counter)]
                   [] kind = "diagram" -> [@ EXCEPT !.diag = DiagramLocals]
                   [] kind = "chart" -> [@ EXCEPT !.chart = <<>>]]
           /\ pc' = [pc EXCEPT ![p] =
                 CASE kind = "flowchart" -> "flow_lines"
                   [] kind = "diagram" -> "diag_arrows"
                   [] kind = "chart" -> "chart_lines"]
    /\ loc' = [loc EXCEPT ![p].todo = SplitLines(loc[p].redacted_text)]
    /\ UNCHANGED <<req, ret, response, history, calls>>

\* parse_flowchart, lines 121-326: one iteration of the line loop
FlowLineStep(p) ==
    /\ pc[p] = "flow_lines"
    /\ loc[p].todo # <<>>
    /\ frame' = [frame EXCEPT ![Frame(p)].flow = FlowLine(@, Head(loc[p].todo))]
    /\ loc' = [loc EXCEPT ![p].todo = Tail(@)]
    /\ UNCHANGED <<pc, req, ret, response, ran, history, calls>>

\* parse_flowchart, lines 328-366: the repair pass
FlowRepair(p) ==
    /\ pc[p] = "flow_lines"
    /\ loc[p].todo = <<>>
    /\ frame' = [frame EXCEPT ![Frame(p)].flow = RepairPass(@)]
    /\ pc' = [pc EXCEPT ![p] = "flow_sequential"]
    /\ UNCHANGED <<req, loc, ret, response, ran, history, calls>>

\* parse_flowchart, lines 368-390: the final pass and the return
FlowSequential(p) ==
    /\ pc[p] = "flow_sequential"
    /\ frame' = [frame EXCEPT ![Frame(p)].flow = SequentialPass(@)]
    /\ loc' = [loc EXCEPT ![p].data = FlowResult(SequentialPass(frame[Frame(p)].flow))]
    /\ pc' = [pc EXCEPT ![p] = "render"]
    /\ UNCHANGED <<req, ret, response, ran, history, calls>>

\* parse_diagram, lines 425-432: one iteration of the arrow pass
DiagArrowStep(p) ==
    /\ pc[p] = "diag_arrows"
    /\ loc[p].todo # <<>>
    /\ frame' = [frame EXCEPT ![Frame(p)].diag = DiagArrowLine(@, Head(loc[p].todo))]
    /\ loc' = [loc EXCEPT ![p].todo = Tail(@)]
    /\ UNCHANGED <<pc, req, ret, response, ran, history, calls>>

\* parse_diagram, lines 435-436: the text is split into phrases
DiagSplitPhrases(p) ==
    /\ pc[p] = "diag_arrows"
    /\ loc[p].todo = <<>>
    /\ loc' = [loc EXCEPT ![p].todo = Phrases(loc[p].redacted_text)]
    /\ pc' = [pc EXCEPT ![p] = "diag_phrases"]
    /\ UNCHANGED <<req, frame, ret, response, ran, history, calls>>

\* parse_diagram, lines 448-458: one iteration of the verb-phrase pass
DiagPhraseStep(p) ==
    /\ pc[p] = "diag_phrases"
    /\ loc[p].todo # <<>>
    /\ frame' = [frame EXCEPT ![Frame(p)].diag = DiagPhrase(@, Head(loc[p].todo), 1)]
    /\ loc' = [loc EXCEPT ![p].todo = Tail(@)]
    /\ UNCHANGED <<pc, req, ret, response, ran, history, calls>>

\* parse_diagram, line 460: the return
DiagReturn(p) ==
    /\ pc[p] = "diag_phrases"
    /\ loc[p].todo = <<>>
    /\ loc' = [loc EXCEPT ![p].data = DiagramResult(frame[Frame(p)].diag)]
    /\ pc' = [pc EXCEPT ![p] = "render"]
    /\ UNCHANGED <<req, frame, ret, response, ran, history, calls>>

\* parse_chart, lines 467-473: one iteration of the line loop
ChartLineStep(p) ==
    /\ pc[p] = "chart_lines"
    /\ loc[p].todo # <<>>
    /\ frame' = [frame EXCEPT ![Frame(p)].chart = ChartLine(@, Head(loc[p].todo))]
    /\ loc' = [loc EXCEPT ![p].todo = Tail(@)]
    /\ UNCHANGED <<pc, req, ret, response, ran, history, calls>>

\* parse_chart, line 475: the return
ChartReturn(p) ==
    /\ pc[p] = "chart_lines"
    /\ loc[p].todo = <<>>
    /\ loc' = [loc EXCEPT ![p].data = frame[Frame(p)].chart]
    /\ pc' = [pc EXCEPT ![p] = "render"]
    /\ UNCHANGED <<req, frame, ret, response, ran, history, calls>>

\* generate_html, lines 646-764: the renderer of the kind runs on the parsed
\* data and the document is returned, or the renderer raises
Render(p) ==
    /\ pc[p] = "render"
    /\ LET kind == loc[p].detected_type
           svg_content == RenderWith(RendererOf(kind), loc[p].data)
       IN  /\ ran' = [ran EXCEPT ![p] = Append(@, RendererOf(kind))]
           /\ ret' = [ret EXCEPT ![p] =
                 IF svg_content.tag \in {"svg", "empty"}
                 THEN Returned(HtmlTemplate(kind, svg_content))
                 ELSE Raised(svg_content.tag)]
    /\ pc' = [pc EXCEPT ![p] = "returned"]
    /\ UNCHANGED <<req, loc, frame, response, history, calls>>

\* generate_flowchart_svg, lines 479-486, and _calculate_flowchart_layout,
\* lines 766-786: the early return, or the layout is entered
LayoutStart(p) ==
    /\ pc[p] = "render"
    /\ loc[p].detected_type = "flowchart"
    /\ ran' = [ran EXCEPT ![p] = Append(@, RendererOf("flowchart"))]
    /\ IF IsEmptyData(loc[p].data.nodes)
       THEN /\ ret' = [ret EXCEPT ![p] = Returned(HtmlTemplate("flowchart", EmptyMarkup))]
            /\ pc' = [pc EXCEPT ![p] = "returned"]
            /\ loc' = loc
       ELSE /\ loc' = [loc EXCEPT ![p].lay = LayoutLocals(loc[p].data.nodes, loc[p].data.edges),
                                  ![p].iterations = 0]
            /\ pc' = [pc EXCEPT ![p] = "layout_bfs"]
            /\ ret' = ret
    /\ UNCHANGED <<req, frame, response, history, calls>>

\* _calculate_flowchart_layout, lines 788-829: one iteration of the loop
LayoutVisit(p) ==
    /\ pc[p] = "layout_bfs"
    /\ loc[p].lay.queue # <<>>
    /\ loc' = [loc EXCEPT ![p].lay = BfsStep(loc[p].data.nodes, loc[p].data.edges, @),
                          ![p].iterations = @ + 1]
    /\ UNCHANGED <<pc, req, frame, ret, response, ran, history, calls>>

\* _calculate_flowchart_layout, lines 832-840: the queue is empty, the nodes
\* not reached are placed
LayoutOrphans(p) ==
    /\ pc[p] = "layout_bfs"
    /\ loc[p].lay.queue = <<>>
    /\ loc' = [loc EXCEPT ![p].lay = PlaceOrphans(loc[p].data.nodes, 1, @)]
    /\ pc' = [pc EXCEPT ![p] = "layout_shift"]
    /\ UNCHANGED <<req, frame, ret, response, ran, history, calls>>

\* _calculate_flowchart_layout, lines 843-848: the shift and the return
LayoutShift(p) ==
    /\ pc[p] = "layout_shift"
    /\ loc' = [loc EXCEPT ![p].lay.layout = ShiftColumns(@)]
    /\ pc' = [pc EXCEPT ![p] = "draw"]
    /\ UNCHANGED <<req, frame, ret, response, ran, history, calls>>

\* generate_flowchart_svg, lines 488-521, and generate_html, lines 656-764:
\* the shapes are drawn and the document is returned
DrawFlowchart(p) ==
    /\ pc[p] = "draw"
    /\ ret' = [ret EXCEPT ![p] =
          Returned(HtmlTemplate("flowchart", FlowchartSvg(loc[p].data, loc[p].lay.layout)))]
    /\ pc' = [pc EXCEPT ![p] = "returned"]
    /\ UNCHANGED <<req, loc, frame, response, ran, history, calls>>

\* generate() of api/index.py, lines 67-77: the answer to the request
Respond(p) ==
    /\ pc[p] = "returned"
    /\ response' = [response EXCEPT ![p] = ResponseFor(ret[p], req[p].visual_type)]
    /\ history' = Append(history, <<req[p].text, req[p].visual_type, ret[p]>>)
    /\ pc' = [pc EXCEPT ![p] = "done"]
    /\ UNCHANGED <<req, loc, frame, ret, ran, calls>>

\* the direct caller takes what generate_html left behind
Return(p) ==
    /\ pc[p] = "returned"
    /\ history' = Append(history, <<req[p].text, req[p].visual_type, ret[p]>>)
    /\ pc' = [pc EXCEPT ![p] = "done"]
    /\ UNCHANGED <<req, loc, frame, ret, response, ran, calls>>

\* the same agent is called again
Again(p) ==
    /\ pc[p] = "done"
    /\ calls < MaxSeqCalls
    /\ pc' = [pc EXCEPT ![p] = "idle"]
    /\ UNCHANGED <<req, loc, frame, ret, response, ran, history, calls>>

\* ------------------------------------------------------------------------
\* Specifications
\* ------------------------------------------------------------------------

\* one request to the HTTP service
Next ==
    \/ pc[1] = "idle" /\ \E data \in Bodies : HttpGenerate(1, data)
    \/ Detect(1)
    \/ EnterParser(1)
    \/ FlowLineStep(1)
    \/ FlowRepair(1)
    \/ FlowSequential(1)
    \/ DiagArrowStep(1)
    \/ DiagSplitPhrases(1)
    \/ DiagPhraseStep(1)
    \/ DiagReturn(1)
    \/ ChartLineStep(1)
    \/ ChartReturn(1)
    \/ Render(1)
    \/ Respond(1)

Spec == Init /\ [][Next]_vars

\* one flowchart compiled from a text
NextFlow ==
    \/ pc[1] = "idle" /\ \E text \in FlowTexts : CallGenerateHtml(1, text, "flowchart")
    \/ Detect(1)
    \/ EnterParser(1)
    \/ FlowLineStep(1)
    \/ FlowRepair(1)
    \/ FlowSequential(1)
    \/ Render(1)
    \/ Return(1)

SpecFlow == Init /\ [][NextFlow]_vars

\* one diagram compiled from a text
NextDiagram ==
    \/ pc[1] = "idle" /\ \E text \in DiagTexts : CallGenerateHtml(1, text, "diagram")
    \/ Detect(1)
    \/ EnterParser(1)
    \/ DiagArrowStep(1)
    \/ DiagSplitPhrases(1)
    \/ DiagPhraseStep(1)
    \/ DiagReturn(1)
    \/ Render(1)
    \/ Return(1)

SpecDiagram == Init /\ [][NextDiagram]_vars

\* calls made one after the other on one agent
NextSeq ==
    \/ pc[1] = "idle" /\ \E in \in SeqInputs : CallGenerateHtml(1, in[1], in[2])
    \/ Detect(1)
    \/ EnterParser(1)
    \/ FlowLineStep(1)
    \/ FlowRepair(1)
    \/ FlowSequential(1)
    \/ DiagArrowStep(1)
    \/ DiagSplitPhrases(1)
    \/ DiagPhraseStep(1)
    \/ DiagReturn(1)
    \/ ChartLineStep(1)
    \/ ChartReturn(1)
    \/ Render(1)
    \/ Return(1)
    \/ Again(1)

SpecSeq == Init /\ [][NextSeq]_vars

\* requests handled at the same time by the threads of the HTTP service,
\* all on the one agent of api/index.py line 19
NextConc ==
    \E p \in Calls :
        \/ pc[p] = "idle" /\ \E data \in ConcBodies : HttpGenerate(p, data)
        \/ Detect(p)
        \/ EnterParser(p)
        \/ FlowLineStep(p)
        \/ FlowRepair(p)
        \/ FlowSequential(p)
        \/ DiagArrowStep(p)
        \/ DiagSplitPhrases(p)
        \/ DiagPhraseStep(p)
        \/ DiagReturn(p)
        \/ ChartLineStep(p)
        \/ ChartReturn(p)
        \/ Render(p)
        \/ Respond(p)

SpecConc == Init /\ [][NextConc]_vars

\* one chart compiled from a text
NextChart ==
    \/ pc[1] = "idle" /\ \E text \in ChartTexts : CallGenerateHtml(1, text, "chart")
    \/ Detect(1)
    \/ EnterParser(1)
    \/ ChartLineStep(1)
    \/ ChartReturn(1)
    \/ Render(1)
    \/ Return(1)

SpecChart == Init /\ [][NextChart]_vars

\* one flowchart compiled from if/then lines and arrow chains
NextForms ==
    \/ pc[1] = "idle" /\ \E text \in FormTexts : CallGenerateHtml(1, text, "flowchart")
    \/ Detect(1)
    \/ EnterParser(1)
    \/ FlowLineStep(1)
    \/ FlowRepair(1)
    \/ FlowSequential(1)
    \/ Render(1)
    \/ Return(1)

SpecForms == Init /\ [][NextForms]_vars

\* one flowchart compiled from decisions, branches and end nodes
NextRepair ==
    \/ pc[1] = "idle" /\ \E text \in RepairTexts : CallGenerateHtml(1, text, "flowchart")
    \/ Detect(1)
    \/ EnterParser(1)
    \/ FlowLineStep(1)
    \/ FlowRepair(1)
    \/ FlowSequential(1)
    \/ Render(1)
    \/ Return(1)

SpecRepair == Init /\ [][NextRepair]_vars

\* one flowchart laid out and drawn, the layout loop taken one iteration at
\* a time
NextLayout ==
    \/ pc[1] = "idle" /\ \E text \in LayoutTexts : CallGenerateHtml(1, text, "flowchart")
    \/ Detect(1)
    \/ EnterParser(1)
    \/ FlowLineStep(1)
    \/ FlowRepair(1)
    \/ FlowSequential(1)
    \/ LayoutStart(1)
    \/ LayoutVisit(1)
    \/ LayoutOrphans(1)
    \/ LayoutShift(1)
    \/ DrawFlowchart(1)
    \/ Return(1)

SpecLayout == Init /\ [][NextLayout]_vars

\* the thread that runs the layout loop is scheduled while the loop has an
\* iteration or its exit to take
SpecLayoutFair == SpecLayout /\ WF_vars(LayoutVisit(1) \/ LayoutOrphans(1))

\* one call of parse_flowchart or of parse_diagram
NextParse ==
    \/ pc[1] = "idle" /\ \E text \in FlowTexts : CallGenerateHtml(1, text, "flowchart")
    \/ pc[1] = "idle" /\ \E text \in DiagTexts : CallGenerateHtml(1, text, "diagram")
    \/ Detect(1)
    \/ EnterParser(1)
    \/ FlowLineStep(1)
    \/ FlowRepair(1)
    \/ FlowSequential(1)
    \/ DiagArrowStep(1)
    \/ DiagSplitPhrases(1)
    \/ DiagPhraseStep(1)
    \/ DiagReturn(1)
    \/ Render(1)
    \/ Return(1)

SpecParse == Init /\ [][NextParse]_vars

\* ------------------------------------------------------------------------
\* Properties
\* ------------------------------------------------------------------------

\* call p is past the classifier of generate_html
Classified(p) ==
    pc[p] \notin {"idle", "generate_html"} /\ response[p].status # 400

IsPrefix(s, t) == Len(s) <= Len(t) /\ SubSeq(t, 1, Len(s)) = s

\* the parser and the renderer of each kind
OwnFunctions(kind) ==
    CASE kind = "flowchart" -> <<"parse_flowchart", "generate_flowchart_svg">>
      [] kind = "diagram" -> <<"parse_diagram", "generate_diagram_svg">>
      [] kind = "chart" -> <<"parse_chart", "generate_chart_svg">>

\* C1: with the hint "auto" the classifier raises nothing and returns one
\* kind: chart when the text holds a key:number occurrence and a quarter or
\* month token, or three key:number occurrences; else flowchart when it holds
\* a flow keyword, a "?", a yes:/no: token or if...then; else diagram.  A text
\* with both a chart and a flowchart signal is a chart.
C1_AutoClassification ==
    \A p \in Calls :
        (Classified(p) /\ req[p].visual_type = "auto") =>
            LET text == loc[p].redacted_text
                kind == loc[p].detected_type
                chart == \/ KeyValueCount(text) >= 1 /\ HasQuarterOrMonth(text)
                         \/ KeyValueCount(text) >= 3
                flow == \/ HasFlowKeywords(text)
                        \/ \E i \in 1..Len(text) : text[i] = "?"
                        \/ HasYesNo(text)
                        \/ HasIfThen(text)
            IN  /\ kind \in VisualType
                /\ ret[p].raised # "ValueError"
                /\ (kind = "chart") <=> chart
                /\ (kind = "flowchart") <=> (~chart /\ flow)
                /\ (kind = "diagram") <=> (~chart /\ ~flow)

\* a text with a chart signal and a flowchart signal has been classified chart
C1_Witness ==
    /\ pc[1] = "done"
    /\ req[1].visual_type = "auto"
    /\ loc[1].detected_type = "chart"
    /\ HasFlowKeywords(loc[1].redacted_text)
    /\ HasQuarterOrMonth(loc[1].redacted_text)
    /\ response[1].success

\* C2: when the hint is one of the three kinds, the classifier returns it
\* whatever the text holds, and generate_html runs the parser and the
\* renderer of that kind and no other.
C2_HintWins ==
    \A p \in Calls :
        (Classified(p) /\ req[p].visual_type \in VisualType) =>
            /\ loc[p].detected_type = req[p].visual_type
            /\ IsPrefix(ran[p], OwnFunctions(req[p].visual_type))
            /\ pc[p] \in {"returned", "done"} => ran[p] = OwnFunctions(req[p].visual_type)

\* a text that alone would be a chart has been compiled as a flowchart
C2_Witness ==
    /\ pc[1] = "done"
    /\ req[1].visual_type = "flowchart"
    /\ AutoDetect(loc[1].redacted_text) = "chart"
    /\ ran[1] = <<"parse_flowchart", "generate_flowchart_svg">>
    /\ response[1].success
    /\ response[1].html.title = "Flowchart"

\* C3: a hint that is neither "auto" nor a kind makes the classifier raise
\* ValueError before any parser or renderer runs; no kind is chosen, no
\* markup is returned, and the HTTP handler answers with success false.
C3_InvalidHint ==
    \A p \in Calls :
        (pc[p] # "idle" /\ req[p].visual_type \notin VisualType \cup {"auto"}) =>
            /\ pc[p] \in {"generate_html", "returned", "done"}
            /\ ran[p] = <<>>
            /\ ret[p].value = NoHtml
            /\ pc[p] = "returned" =>
                   ret[p].raised = "ValueError" /\ loc[p].detected_type \notin VisualType
            /\ pc[p] = "done" => ~response[p].success /\ response[p].html = NoHtml

\* a request with the type "pie" has been answered with the error
C3_Witness ==
    /\ pc[1] = "done"
    /\ req[1].visual_type = "pie"
    /\ Strip(req[1].text) # <<>>
    /\ response[1].status = 500
    /\ response[1].error = "ValueError"
    /\ ~response[1].success

\* the node ids node_0, node_1, ... in node order
FreshIds(nodes) == \A i \in 1..Len(nodes) : nodes[i].id = <<"node_", ToString(i - 1)>>

\* C4: on one agent, whatever calls came before, two calls of generate_html
\* with the same text and type return the same output, and what a call
\* parses is what a first call parses: its node ids start again at node_0.
C4_HistoryIndependent ==
    /\ \A i, j \in 1..Len(history) :
           (history[i][1] = history[j][1] /\ history[i][2] = history[j][2])
               => history[i][3] = history[j][3]
    /\ \A i \in 1..Len(history) :
           history[i][3] = generate_html(history[i][1], history[i][2])
    /\ \A p \in Calls :
           pc[p] \in {"render", "returned", "done"} /\ loc[p].detected_type \in VisualType =>
               /\ loc[p].data = ParseWith(ParserOf(loc[p].detected_type),
                                          loc[p].redacted_text)
               /\ loc[p].detected_type # "chart" => FreshIds(loc[p].data.nodes)

\* the same flowchart has been compiled twice in a row on one agent
C4_Witness ==
    /\ Len(history) = 2
    /\ history[1][1] = history[2][1]
    /\ history[1][2] = history[2][2]
    /\ history[2][3].raised = "None"
    /\ loc[1].detected_type = "flowchart"
    /\ Len(loc[1].data.nodes) >= 2

\* C5: when requests run at the same time on the one agent, their steps
\* interleaved in any order, each gets the response it gets when run alone,
\* and each parses what it parses when run alone.
C5_Isolation ==
    \A p \in Calls :
        /\ pc[p] = "done" => response[p] = generate(req[p].data)
        /\ (pc[p] \in {"render", "returned"} /\ loc[p].detected_type \in VisualType) =>
               loc[p].data = ParseWith(ParserOf(loc[p].detected_type),
                                       loc[p].redacted_text)

\* two different flowcharts have been compiled at the same time
C5_Witness ==
    /\ pc[1] = "done" /\ pc[2] = "done"
    /\ req[2].overlaps
    /\ loc[1].detected_type = "flowchart" /\ loc[2].detected_type = "flowchart"
    /\ req[1].text # req[2].text
    /\ response[1].success /\ response[2].success

Range(s) == { s[i] : i \in 1..Len(s) }

\* call p has parsed a diagram
DiagramParsed(p) ==
    pc[p] \in {"render", "returned", "done"} /\ loc[p].detected_type = "diagram"

\* the mentions the arrow pass hands to add_node, blanks collapsed
ArrowMentions(text) ==
    { canon(m) : m \in UNION { Range(ArrowParts(line)) :
                     line \in { l \in Range(SplitLines(text)) : HasArrow(l) } } }
        \ {<<>>}

\* the two groups of the first verb pattern that matches the phrase
RECURSIVE FirstVerbMatch(_, _)
FirstVerbMatch(phrase, p) ==
    IF p > Len(verb_patterns) THEN [ok |-> FALSE, from |-> <<>>, to |-> <<>>]
    ELSE IF VerbMatch(phrase, verb_patterns[p]).ok
         THEN VerbMatch(phrase, verb_patterns[p])
         ELSE FirstVerbMatch(phrase, p + 1)

\* the mentions the verb-phrase pass finds, as written, blanks collapsed
VerbMentions(text) ==
    UNION { { canon(FirstVerbMatch(ph, 1).from), canon(FirstVerbMatch(ph, 1).to) } :
              ph \in { q \in Range(Phrases(text)) : FirstVerbMatch(q, 1).ok } }
        \ {<<>>}

\* the id of the node that carries the label, None if there is none
IdOfLabel(nodes, label) ==
    IF \E i \in 1..Len(nodes) : nodes[i].label = label
    THEN nodes[CHOOSE i \in 1..Len(nodes) :
                   /\ nodes[i].label = label
                   /\ \A j \in 1..(i - 1) : nodes[j].label # label].id
    ELSE None

\* C6: in parse_diagram every mention of the same label maps to one node,
\* whether the arrow pass or the verb-phrase pass finds it, so no two nodes
\* carry one label.
C6_SameLabelSameNode ==
    \A p \in Calls :
        DiagramParsed(p) =>
            LET text == loc[p].redacted_text
                nodes == loc[p].data.nodes
            IN  /\ \A m \in ArrowMentions(text) \cap VerbMentions(text) :
                       IdOfLabel(nodes, m) = IdOfLabel(nodes, clean_entity(m))
                /\ \A i, j \in 1..Len(nodes) :
                       nodes[i].label = nodes[j].label => i = j

\* a label as the specification compares it: blanks collapsed, a leading
\* article dropped, letter case ignored
Normalized(label) == MapSeq(Lower, clean_entity(label))

\* C7: in parse_diagram two mentions that differ only in letter case, in a
\* leading article or in the amount of whitespace map to the same node, so no
\* two nodes carry labels that differ only in these.
C7_NormalizedIdentity ==
    \A p \in Calls :
        DiagramParsed(p) =>
            \A i, j \in 1..Len(loc[p].data.nodes) :
                Normalized(loc[p].data.nodes[i].label)
                    = Normalized(loc[p].data.nodes[j].label) => i = j

\* the ordered pairs of an edge list
EdgePairs(edges) == { <<edges[i].from, edges[i].to>> : i \in 1..Len(edges) }

\* the ordered pairs the arrow pass relates
ArrowPairs(text) ==
    UNION { { <<canon(ArrowParts(line)[i]), canon(ArrowParts(line)[i + 1])>> :
                i \in 1..(Len(ArrowParts(line)) - 1) } :
              line \in { l \in Range(SplitLines(text)) : HasArrow(l) } }

\* the ordered pairs the verb-phrase pass relates
VerbPairs(text) ==
    { <<canon(clean_entity(FirstVerbMatch(ph, 1).from)),
        canon(clean_entity(FirstVerbMatch(ph, 1).to))>> :
        ph \in { q \in Range(Phrases(text)) : FirstVerbMatch(q, 1).ok } }

\* C8: the edge list of parse_diagram never holds two edges with the same
\* ordered pair (from, to), whichever pass made them; an edge once inserted
\* keeps its place; and every pair either pass relates has its edge, B->A
\* beside A->B.
C8_EdgesDistinctInOrder ==
    [][\A p \in Calls :
          LET before == frame[Frame(p)].diag.edges
              after  == frame'[Frame(p)].diag.edges
          IN  /\ pc[p] \in {"diag_arrows", "diag_phrases"} => IsPrefix(before, after)
              /\ \A i, j \in 1..Len(after) :
                     (after[i].from = after[j].from /\ after[i].to = after[j].to)
                         => i = j
              /\ (pc[p] = "diag_phrases" /\ pc'[p] = "render") =>
                     /\ loc'[p].data.edges = after
                     /\ EdgePairs(after) =
                            { pr \in ArrowPairs(loc[p].redacted_text)
                                       \cup VerbPairs(loc[p].redacted_text) :
                                pr[1] # <<>> /\ pr[2] # <<>> }
      ]_vars

\* three relations over two labels, one of them met twice, gave two edges
C8_Witness ==
    /\ pc[1] = "render"
    /\ loc[1].detected_type = "diagram"
    /\ Len(SplitLines(loc[1].redacted_text)) = 3
    /\ Len(loc[1].data.edges) = 2
    /\ EdgePairs(loc[1].data.edges) = { << <<"Api">>, <<"Db">> >>, << <<"Db">>, <<"Api">> >> }
    /\ Len(loc[1].data.nodes) = 2

\* call p has parsed a flowchart
FlowParsed(p) ==
    pc[p] \in {"render", "returned", "done"} /\ loc[p].detected_type = "flowchart"

\* a plain sequential line: no if/then, no Yes/No branch, no arrow token
IsPlainLine(line) ==
    ~IfThenMatch(line).ok /\ ~HasBranch(line) /\ Len(ArrowParts(line)) = 1

\* at least one line, all plain, with pairwise distinct labels
PlainInput(lines) ==
    /\ lines # <<>>
    /\ \A i \in 1..Len(lines) : IsPlainLine(lines[i])
    /\ \A i, j \in 1..Len(lines) :
           StepLabel(lines[i]) = StepLabel(lines[j]) => i = j

\* the unlabeled edges node i -> node i+1 for the i that Keep lets through
RECURSIVE ChainEdges(_, _, _)
ChainEdges(nodes, Keep(_), i) ==
    IF i >= Len(nodes) THEN <<>>
    ELSE (IF Keep(i)
          THEN <<[from |-> nodes[i].id, to |-> nodes[i + 1].id, label |-> "None"]>>
          ELSE <<>>) \o ChainEdges(nodes, Keep, i + 1)

\* one node per line, in line order
OneNodePerLine(lines, nodes) ==
    /\ Len(nodes) = Len(lines)
    /\ \A i \in 1..Len(lines) : nodes[i].label = StepLabel(lines[i])

\* C9 as stated: k plain sequential lines with pairwise distinct labels give
\* k nodes, one per line in line order, and the k-1 unlabeled edges of the
\* chain line1 -> line2 -> ... -> linek.
C9_PlainChain ==
    \A p \in Calls :
        (FlowParsed(p) /\ PlainInput(SplitLines(loc[p].redacted_text))) =>
            LET All(i) == TRUE
            IN  /\ OneNodePerLine(SplitLines(loc[p].redacted_text), loc[p].data.nodes)
                /\ loc[p].data.edges = ChainEdges(loc[p].data.nodes, All, 1)

\* C9, amended: k plain sequential lines with pairwise distinct labels give
\* k nodes, one per line in line order, and the unlabeled edge from line i to
\* line i+1 for exactly the i whose line is no decision line (no "?", no
\* decision/check/validate/verify word); so the whole chain of k-1 edges when
\* none of the first k-1 lines is a decision line.
C9_PlainChainAmended ==
    \A p \in Calls :
        (FlowParsed(p) /\ PlainInput(SplitLines(loc[p].redacted_text))) =>
            LET lines == SplitLines(loc[p].redacted_text)
                NoDecision(i) == ~IsDecision(StepLabel(lines[i]))
                All(i) == TRUE
            IN  /\ OneNodePerLine(lines, loc[p].data.nodes)
                /\ loc[p].data.edges = ChainEdges(loc[p].data.nodes, NoDecision, 1)
                /\ (\A i \in 1..(Len(lines) - 1) : NoDecision(i)) =>
                       /\ Len(loc[p].data.edges) = Len(lines) - 1
                       /\ loc[p].data.edges = ChainEdges(loc[p].data.nodes, All, 1)

\* three plain lines, none a decision, gave the chain of two edges
C9_Witness ==
    /\ pc[1] = "render"
    /\ loc[1].detected_type = "flowchart"
    /\ PlainInput(SplitLines(loc[1].redacted_text))
    /\ Len(SplitLines(loc[1].redacted_text)) = 3
    /\ \A i \in 1..3 : ~IsDecision(StepLabel(SplitLines(loc[1].redacted_text)[i]))
    /\ Len(loc[1].data.nodes) = 3
    /\ Len(loc[1].data.edges) = 2

\* the label an if/then form gives its decision node
ConditionLabel(condition) ==
    IF condition # <<>> /\ condition[Len(condition)] = "?"
    THEN condition ELSE Append(condition, "?")

\* the label of the decision seen last among the segments of an arrow chain,
\* cur if there is none
RECURSIVE LatestInParts(_, _)
LatestInParts(parts, cur) ==
    IF parts = <<>> THEN cur
    ELSE LET part == Head(parts)
             now == IF part = <<>> THEN cur
                    ELSE IF IfThenMatch(part).ok
                         THEN ConditionLabel(IfThenMatch(part).condition)
                    ELSE IF YesMatch(part).ok \/ NoMatch(part).ok THEN cur
                    ELSE IF IsDecision(part) THEN part
                    ELSE cur
         IN  LatestInParts(Tail(parts), now)

\* the label of the decision seen last in the lines: a plain decision line,
\* an if/then line or a decision segment of an arrow chain; cur if none
RECURSIVE LatestDecision(_, _)
LatestDecision(lines, cur) ==
    IF lines = <<>> THEN cur
    ELSE LET line == Head(lines)
             now == IF IfThenMatch(line).ok
                    THEN ConditionLabel(IfThenMatch(line).condition)
                    ELSE IF Len(ArrowParts(line)) > 1
                         THEN LatestInParts(ArrowParts(line), cur)
                    ELSE IF HasBranch(line) THEN cur
                    ELSE IF IsDecision(StepLabel(line)) THEN StepLabel(line)
                    ELSE cur
         IN  LatestDecision(Tail(lines), now)

\* a standalone Yes/No branch line
IsBranchLine(line) ==
    ~IfThenMatch(line).ok /\ HasBranch(line) /\ Len(ArrowParts(line)) = 1

\* the lines call p has processed
LinesDone(p) ==
    SubSeq(SplitLines(loc[p].redacted_text), 1,
           Len(SplitLines(loc[p].redacted_text)) - Len(loc[p].todo))

\* C10: a standalone Yes/No branch line processed after a decision has been
\* seen appends, for each branch text it captures, an edge labelled Yes or No
\* from the node of the decision seen last to the node of the branch text,
\* which it adds if absent; the source is never an earlier decision.
C10_BranchFromLatestDecision ==
    [][\A p \in Calls :
          (/\ pc[p] = "flow_lines" /\ loc[p].todo # <<>>
           /\ loc'[p].todo = Tail(loc[p].todo)
           /\ IsBranchLine(Head(loc[p].todo))
           /\ LatestDecision(LinesDone(p), None) # None) =>
              LET line == Head(loc[p].todo)
                  st   == frame[Frame(p)].flow
                  st2  == frame'[Frame(p)].flow
                  src  == IdOfLabel(st.nodes, LatestDecision(LinesDone(p), None))
                  Branch(m, which) ==
                      IF m.ok /\ m.path # <<>>
                      THEN <<[from |-> src, to |-> IdOfLabel(st2.nodes, m.path),
                              label |-> which]>>
                      ELSE <<>>
                  added == Branch(YesMatch(line), "Yes") \o Branch(NoMatch(line), "No")
              IN  /\ src # None
                  /\ IsPrefix(st.nodes, st2.nodes)
                  /\ st2.edges = st.edges \o added
                  /\ \A i \in 1..Len(added) : added[i].to # None
      ]_vars

\* a branch line met after two different decisions hangs on the second one
C10_Witness ==
    LET lines == SplitLines(loc[1].redacted_text)
        edges == frame[Frame(1)].flow.edges
    IN  /\ pc[1] = "flow_lines"
        /\ loc[1].todo = <<>>
        /\ Len(lines) = 3
        /\ IsBranchLine(lines[3])
        /\ LatestDecision(SubSeq(lines, 1, 1), None) # None
        /\ LatestDecision(SubSeq(lines, 1, 2), None)
               # LatestDecision(SubSeq(lines, 1, 1), None)
        /\ edges # <<>>
        /\ edges[Len(edges)].label \in {"Yes", "No"}
        /\ edges[Len(edges)].from =
               IdOfLabel(frame[Frame(1)].flow.nodes,
                         LatestDecision(SubSeq(lines, 1, 2), None))
        /\ edges[Len(edges)].from #
               IdOfLabel(frame[Frame(1)].flow.nodes,
                         LatestDecision(SubSeq(lines, 1, 1), None))

\* call p has parsed a chart
ChartParsed(p) ==
    pc[p] \in {"render", "returned", "done"} /\ loc[p].detected_type = "chart"

\* the lines that match label[:=]number, in line order
RECURSIVE MatchingLines(_)
MatchingLines(lines) ==
    IF lines = <<>> THEN <<>>
    ELSE (IF ChartMatch(Head(lines)).ok THEN <<Head(lines)>> ELSE <<>>)
             \o MatchingLines(Tail(lines))

\* C11: parse_chart returns one point per line that matches label[:=]number,
\* in line order, and nothing for any other line; a repeated label gives a
\* point each time; a line that does not match raises nothing and leaves the
\* points collected so far as they are.
C11_PointPerMatchingLine ==
    [][\A p \in Calls :
          LET before == frame[Frame(p)].chart
              after  == frame'[Frame(p)].chart
          IN  /\ (pc[p] = "chart_lines" /\ loc[p].todo # <<>>
                    /\ loc'[p].todo = Tail(loc[p].todo)) =>
                     LET m == ChartMatch(Head(loc[p].todo))
                     IN  /\ pc'[p] = "chart_lines"
                         /\ m.ok => after = Append(before, [label |-> m.label,
                                                            value |-> m.value])
                         /\ ~m.ok => after = before
              /\ (pc[p] = "chart_lines" /\ pc'[p] = "render") =>
                     LET hits == MatchingLines(SplitLines(loc[p].redacted_text))
                     IN  /\ loc'[p].data = after
                         /\ Len(after) = Len(hits)
                         /\ \A k \in 1..Len(hits) :
                                /\ after[k].label = ChartMatch(hits[k]).label
                                /\ after[k].value = ChartMatch(hits[k]).value
      ]_vars

\* a line that does not match stood between two lines with the same label:
\* two points, both with that label
C11_Witness ==
    LET lines == SplitLines(loc[1].redacted_text)
    IN  /\ pc[1] = "render"
        /\ loc[1].detected_type = "chart"
        /\ Len(lines) = 3
        /\ ChartMatch(lines[1]).ok /\ ~ChartMatch(lines[2]).ok /\ ChartMatch(lines[3]).ok
        /\ Len(loc[1].data) = 2
        /\ loc[1].data[1].label = loc[1].data[2].label
        /\ loc[1].data[1].value # loc[1].data[2].value

\* C12: a chart whose points all have the value 0 is rendered without a
\* division-by-zero fault, every bar with the height 0.
C12_ZeroMaxRenders ==
    \A p \in Calls :
        (/\ ChartParsed(p) /\ pc[p] \in {"returned", "done"}
         /\ loc[p].data # <<>>
         /\ \A i \in 1..Len(loc[p].data) : loc[p].data[i].value = 0) =>
            /\ ret[p].raised = "None"
            /\ ret[p].value.svg.tag = "svg"
            /\ \A i \in 1..Len(loc[p].data) :
                   ret[p].value.svg.bars[i].bar_height[1] = 0

\* call p has run its renderer on a parse result without nodes or points
RenderedEmpty(p) ==
    /\ pc[p] \in {"returned", "done"}
    /\ loc[p].detected_type \in VisualType
    /\ Len(ran[p]) = 2
    /\ IF loc[p].detected_type = "chart" THEN loc[p].data = <<>>
       ELSE loc[p].data.nodes = <<>>

\* C13: for each of the three kinds, when the parser yields no node or no
\* point the renderer returns the empty fragment and raises nothing: neither
\* the layout nor a division by the node or point count is run on nothing.
C13_EmptyRendersEmpty ==
    \A p \in Calls :
        RenderedEmpty(p) =>
            /\ ret[p].raised = "None"
            /\ ret[p].value = HtmlTemplate(loc[p].detected_type, [tag |-> "empty"])
            /\ pc[p] = "done" => response[p].status = 200 /\ response[p].success

\* a branch line without a decision gave a flowchart without nodes, and the
\* request was answered with the empty fragment
C13_Witness ==
    /\ RenderedEmpty(1)
    /\ pc[1] = "done"
    /\ loc[1].detected_type = "flowchart"
    /\ ran[1] = <<"parse_flowchart", "generate_flowchart_svg">>
    /\ response[1].html.svg = [tag |-> "empty"]

\* the ids of a node list
NodeIds(nodes) == { nodes[i].id : i \in 1..Len(nodes) }

\* call p has parsed a flowchart with at least one node
FlowchartToLay(p) == FlowParsed(p) /\ loc[p].data.nodes # <<>>

\* the layout the renderer of call p computes
LayoutOf(p) == calculate_flowchart_layout(loc[p].data.nodes, loc[p].data.edges)

\* C14: for every node list and edge list parse_flowchart returns, with at
\* least one node, the keys of the layout are exactly the node ids, each with
\* one (col, row) pair, and every id the traversal looks up is the id of a
\* node: an edge out of a node leads to a node.
C14_LayoutCoversNodes ==
    \A p \in Calls :
        FlowchartToLay(p) =>
            LET nodes == loc[p].data.nodes
                edges == loc[p].data.edges
            IN  /\ StartNode(nodes, edges).id \in NodeIds(nodes)
                /\ \A i \in 1..Len(edges) :
                       edges[i].from \in NodeIds(nodes) => edges[i].to \in NodeIds(nodes)
                /\ LET layout == LayoutOf(p)
                   IN  /\ DOMAIN layout = NodeIds(nodes)
                       /\ \A k \in DOMAIN layout :
                              /\ DOMAIN layout[k] = {"col", "row"}
                              /\ layout[k].col \in Nat
                              /\ layout[k].row \in Nat

\* a flowchart with a decision, its two branches and a node that no edge
\* reaches has been laid out
C14_Witness ==
    LET nodes == loc[1].data.nodes
        edges == loc[1].data.edges
    IN  /\ FlowchartToLay(1)
        /\ pc[1] = "returned"
        /\ ret[1].raised = "None"
        /\ \E i, j \in 1..Len(edges) : edges[i].label = "Yes" /\ edges[j].label = "No"
        /\ \E i \in 1..Len(nodes) :
               /\ nodes[i].id # StartNode(nodes, edges).id
               /\ \A j \in 1..Len(edges) : edges[j].to # nodes[i].id
               /\ \A k \in DOMAIN LayoutOf(1) :
                      k # nodes[i].id => LayoutOf(1)[k].row < LayoutOf(1)[nodes[i].id].row
        /\ \E k \in DOMAIN LayoutOf(1) : LayoutOf(1)[k].col = 2

\* C15: in the layout no two different nodes stand at the same (col, row).
C15_UniquePositions ==
    \A p \in Calls :
        FlowchartToLay(p) =>
            LET layout == LayoutOf(p)
            IN  \A a, b \in DOMAIN layout : layout[a] = layout[b] => a = b

\* call p is inside parse_flowchart / inside parse_diagram
InFlowParser(p) == pc[p] \in {"flow_lines", "flow_sequential"}
InDiagParser(p) == pc[p] \in {"diag_arrows", "diag_phrases"}

\* the nodes carry pairwise different labels and the ids node_0, node_1, ...
\* in the order they were made
OneIdPerLabel(nodes) ==
    /\ \A i, j \in 1..Len(nodes) : nodes[i].label = nodes[j].label => i = j
    /\ \A i, j \in 1..Len(nodes) : nodes[i].id = nodes[j].id => i = j
    /\ \A i \in 1..Len(nodes) : nodes[i].id = <<"node_", ToString(i - 1)>>

\* C16: within one call of parse_flowchart or parse_diagram the map from
\* label to id is a bijection at every step: a label has one id, two labels
\* have two ids, ids come from a counter that only grows, and a step leaves
\* the id, label and role of every node made before as they are.
C16_LabelIdBijection ==
    [][\A p \in Calls :
          LET flow  == frame[Frame(p)].flow
              flow2 == frame'[Frame(p)].flow
              diag  == frame[Frame(p)].diag
              diag2 == frame'[Frame(p)].diag
          IN  /\ InFlowParser(p) =>
                     /\ IsPrefix(flow.nodes, flow2.nodes)
                     /\ flow2.node_id_counter >= flow.node_id_counter
                     /\ flow2.node_id_counter = Len(flow2.nodes)
                     /\ OneIdPerLabel(flow2.nodes)
                     /\ DOMAIN flow2.node_map
                            = { flow2.nodes[i].label : i \in 1..Len(flow2.nodes) }
                     /\ \A i \in 1..Len(flow2.nodes) :
                            flow2.node_map[flow2.nodes[i].label] = flow2.nodes[i].id
              /\ InDiagParser(p) =>
                     /\ IsPrefix(diag.nodes, diag2.nodes)
                     /\ OneIdPerLabel(diag2.nodes)
                     /\ diag2.node_set
                            = { diag2.nodes[i].label : i \in 1..Len(diag2.nodes) }
      ]_vars

\* a chain made End a process node, a later line named End again: still one
\* node End, still a process node
C16_Witness ==
    LET st == frame[Frame(1)].flow
        lines == SplitLines(loc[1].redacted_text)
    IN  /\ pc[1] = "flow_lines"
        /\ loc[1].todo = <<>>
        /\ Len(lines) = 3
        /\ lines[3] = <<"End">>
        /\ Len(st.nodes) = 3
        /\ \E i \in 1..Len(st.nodes) :
               st.nodes[i].label = <<"End">> /\ st.nodes[i].type = "process"

\* call p takes the next line, line, in this step of its line loop
TakesLine(p) ==
    /\ pc[p] = "flow_lines" /\ loc[p].todo # <<>>
    /\ loc'[p].todo = Tail(loc[p].todo)

\* the type of the node that carries the label, "None" if there is none
TypeOfLabel(nodes, label) ==
    IF \E i \in 1..Len(nodes) : nodes[i].label = label
    THEN nodes[CHOOSE i \in 1..Len(nodes) : nodes[i].label = label].type
    ELSE "None"

\* the edges an if/then/else line makes: Yes to the then-action and, with an
\* else part, No to the else-action, both from the node of the decision
IfThenEdges(nodes, m) ==
    LET src == IdOfLabel(nodes, ConditionLabel(m.condition))
    IN  <<[from |-> src, to |-> IdOfLabel(nodes, m.then_action), label |-> "Yes"]>>
        \o (IF m.else_action # <<>>
            THEN <<[from |-> src, to |-> IdOfLabel(nodes, m.else_action), label |-> "No"]>>
            ELSE <<>>)

\* what C17 says of an if/then/else line but for the role of the decision node
IfThenLineEffect(p) ==
    LET line == Head(loc[p].todo)
        m    == IfThenMatch(line)
        st   == frame[Frame(p)].flow
        st2  == frame'[Frame(p)].flow
    IN  /\ IdOfLabel(st2.nodes, ConditionLabel(m.condition)) # None
        /\ IdOfLabel(st2.nodes, m.then_action) # None
        /\ m.else_action # <<>> => IdOfLabel(st2.nodes, m.else_action) # None
        /\ st2.edges = st.edges \o IfThenEdges(st2.nodes, m)
        /\ st2.last_decision = ConditionLabel(m.condition)
        /\ st2.sequential_candidates = st.sequential_candidates

\* C17 as stated: a line "if <cond> then <action> [else <action>]" produces a
\* decision node labelled with the condition, "?" appended when the condition
\* does not end in it, a Yes-edge from it to the then-action node and a
\* No-edge from it to the else-action node exactly when there is an else
\* part; the if/then form goes before the Yes/No, arrow and plain forms, and
\* the decision becomes the decision seen last.
C17_IfThenForm ==
    [][\A p \in Calls :
          (TakesLine(p) /\ IfThenMatch(Head(loc[p].todo)).ok) =>
              /\ IfThenLineEffect(p)
              /\ TypeOfLabel(frame'[Frame(p)].flow.nodes,
                             ConditionLabel(IfThenMatch(Head(loc[p].todo)).condition))
                     = "decision"
      ]_vars

\* C17, amended: the node labelled with the condition is made as a decision
\* node when no node carries that label yet; a node that carries it already
\* is used as it is, whatever its role.  The rest is as stated.
C17_IfThenFormAmended ==
    [][\A p \in Calls :
          (TakesLine(p) /\ IfThenMatch(Head(loc[p].todo)).ok) =>
              LET label == ConditionLabel(IfThenMatch(Head(loc[p].todo)).condition)
                  st    == frame[Frame(p)].flow
                  st2   == frame'[Frame(p)].flow
              IN  /\ IfThenLineEffect(p)
                  /\ IsPrefix(st.nodes, st2.nodes)
                  /\ TypeOfLabel(st2.nodes, label) =
                         IF TypeOfLabel(st.nodes, label) = "None" THEN "decision"
                         ELSE TypeOfLabel(st.nodes, label)
      ]_vars

\* an if/then/else line whose condition already ends in "?" or holds a
\* Yes/No or arrow token has made its decision node and its two edges
C17_Witness ==
    LET st == frame[Frame(1)].flow
        lines == SplitLines(loc[1].redacted_text)
        m == IfThenMatch(lines[3])
    IN  /\ pc[1] = "flow_lines"
        /\ loc[1].todo = <<>>
        /\ Len(lines) = 3
        /\ IfThenMatch(lines[1]).ok /\ IfThenMatch(lines[1]).else_action = <<>>
        /\ IfThenMatch(lines[1]).condition = <<"Valid", "?">>
        /\ IfThenMatch(lines[2]).ok /\ HasArrow(lines[2])
        /\ m.ok /\ m.else_action # <<>>
        /\ Len(st.edges) = 4
        /\ st.edges[3].label = "Yes" /\ st.edges[4].label = "No"
        /\ st.edges[4].from = IdOfLabel(st.nodes, <<"Check", "?">>)
        /\ TypeOfLabel(st.nodes, <<"Check", "?">>) = "decision"
        /\ TypeOfLabel(st.nodes, <<"Valid", "?">>) = "decision"
        /\ st.last_decision = <<"Check", "?">>

\* an arrow-chain line: no if/then form as a whole, and an arrow token
IsArrowChain(line) == ~IfThenMatch(line).ok /\ Len(ArrowParts(line)) > 1

\* a Yes/No branch segment, and a plain segment of an arrow chain
IsBranchSegment(part) == YesMatch(part).ok \/ NoMatch(part).ok
IsPlainSegment(part) ==
    part # <<>> /\ ~IfThenMatch(part).ok /\ ~IsBranchSegment(part)

\* the role C18 gives a plain segment
SegmentRole(part) ==
    IF \E i \in 1..Len(part) :
           part[i] = "?" \/ Lower(part[i]) \in {"check", "validate", "verify"}
    THEN "decision"
    ELSE IF \E i \in 1..Len(part) : Lower(part[i]) \in {"start", "begin", "end", "finish"}
    THEN "terminal"
    ELSE "process"

\* C18: every plain segment of an arrow-chain line, wherever it stands in the
\* chain, becomes a node with the role decision when it holds "?" or a
\* check/validate/verify word, else terminal when it holds a
\* start/begin/end/finish word, else process.  (Stated for the segments whose
\* label no node carries before the line, so that no earlier line has chosen
\* the role.)
C18_ArrowSegmentRoles ==
    [][\A p \in Calls :
          (TakesLine(p) /\ IsArrowChain(Head(loc[p].todo))) =>
              LET parts == ArrowParts(Head(loc[p].todo))
                  st    == frame[Frame(p)].flow
                  st2   == frame'[Frame(p)].flow
              IN  \A i \in 1..Len(parts) :
                      (IsPlainSegment(parts[i])
                         /\ TypeOfLabel(st.nodes, parts[i]) = "None") =>
                          TypeOfLabel(st2.nodes, parts[i]) = SegmentRole(parts[i])
      ]_vars

\* the node the next segment of a chain stands for: the decision node of an
\* if/then/else segment, else the node labelled with the segment
SegmentNode(nodes, part) ==
    IF IfThenMatch(part).ok
    THEN IdOfLabel(nodes, ConditionLabel(IfThenMatch(part).condition))
    ELSE IdOfLabel(nodes, part)

\* the unlabeled edges C19 gives the segments of a chain from segment i on
RECURSIVE ChainLinks(_, _, _)
ChainLinks(nodes, parts, i) ==
    IF i >= Len(parts) THEN <<>>
    ELSE (IF IsPlainSegment(parts[i]) /\ ~IsBranchSegment(parts[i + 1])
          THEN <<[from |-> IdOfLabel(nodes, parts[i]),
                  to |-> SegmentNode(nodes, parts[i + 1]), label |-> "None"]>>
          ELSE <<>>) \o ChainLinks(nodes, parts, i + 1)

\* C19: in an arrow-chain line every plain segment followed by another
\* segment gets exactly one unlabeled edge to the node of that next segment,
\* the decision node when the next segment is an if/then/else, and no edge
\* when the next segment is a Yes/No branch segment.
C19_ArrowSegmentEdges ==
    [][\A p \in Calls :
          (TakesLine(p) /\ IsArrowChain(Head(loc[p].todo))) =>
              LET parts == ArrowParts(Head(loc[p].todo))
                  st    == frame[Frame(p)].flow
                  st2   == frame'[Frame(p)].flow
                  Unlabeled(e) == e.label = "None"
              IN  /\ IsPrefix(st.edges, st2.edges)
                  /\ FilterSeq(Unlabeled,
                               SubSeq(st2.edges, Len(st.edges) + 1, Len(st2.edges)))
                         = ChainLinks(st2.nodes, parts, 1)
      ]_vars

\* the target of the first edge with this label out of the node id, None if
\* the node has no such edge
BranchTarget(edges, id, which) ==
    LET Is(e) == e.from = id /\ e.label = which
    IN  IF FirstIndex(edges, Is) = 0 THEN None ELSE edges[FirstIndex(edges, Is)].to

\* the decision nodes with a Yes-edge and a No-edge
BothBranches(nodes, edges) ==
    { i \in 1..Len(nodes) :
        /\ nodes[i].type = "decision"
        /\ BranchTarget(edges, nodes[i].id, "Yes") # None
        /\ BranchTarget(edges, nodes[i].id, "No") # None }

\* the pairs (Yes-target, end node): the end node is the first terminal node
\* whose label contains "end"
YesRepairs(st) ==
    LET IsEnd(nd) == nd.type = "terminal" /\ HasEndSubstring(nd.label)
        e == FirstIndex(st.nodes, IsEnd)
    IN  IF e = 0 THEN {}
        ELSE { <<BranchTarget(st.edges, st.nodes[i].id, "Yes"), st.nodes[e].id>> :
                 i \in BothBranches(st.nodes, st.edges) }

\* the pairs (No-target, backbone entry after the decision), for the
\* decisions that stand in the backbone and not at its end
NoRepairs(st) ==
    LET seq == st.sequential_candidates
        At(i) == LET Is(l) == l = st.nodes[i].label IN FirstIndex(seq, Is)
    IN  { <<BranchTarget(st.edges, st.nodes[i].id, "No"),
            IdOfLabel(st.nodes, seq[At(i) + 1])>> :
            i \in { d \in BothBranches(st.nodes, st.edges) :
                      At(d) >= 1 /\ At(d) < Len(seq) } }

\* C20: the repair pass gives every decision node with a Yes-edge and a
\* No-edge an edge from the Yes-target to the terminal node whose label
\* contains "end", if there is one, and an edge from the No-target to the
\* backbone entry after the decision, if the decision stands in the backbone
\* and not at its end.  It adds an edge only when no edge with that source
\* and target exists, adds nothing else, and the edges are there when
\* parse_flowchart returns.
C20_RepairPass ==
    [][\A p \in Calls :
          LET st  == frame[Frame(p)].flow
              st2 == frame'[Frame(p)].flow
              added == SubSeq(st2.edges, Len(st.edges) + 1, Len(st2.edges))
              wanted == YesRepairs(st) \cup NoRepairs(st)
          IN  /\ (pc[p] = "flow_lines" /\ pc'[p] = "flow_sequential") =>
                     /\ st2.nodes = st.nodes
                     /\ IsPrefix(st.edges, st2.edges)
                     /\ wanted \subseteq EdgePairs(st2.edges)
                     /\ \A i \in 1..Len(added) :
                            /\ added[i].label = "None"
                            /\ <<added[i].from, added[i].to>> \in wanted
                            /\ <<added[i].from, added[i].to>> \notin EdgePairs(st.edges)
                            /\ \A j \in 1..Len(added) :
                                   (added[i].from = added[j].from
                                      /\ added[i].to = added[j].to) => i = j
              /\ (pc[p] = "flow_sequential" /\ pc'[p] = "render") =>
                     /\ IsPrefix(st.edges, st2.edges)
                     /\ loc'[p].data.edges = st2.edges
                     /\ loc'[p].data.nodes = st.nodes
      ]_vars

\* an arrow line had linked the Yes-target of a decision to the end node
\* before the repair pass: the pass has left it at that one edge, and has
\* linked the No-target of a decision in the backbone to the entry after it
C20_Witness ==
    LET st == frame[Frame(1)].flow
        Links(pr) == { i \in 1..Len(st.edges) :
                         st.edges[i].from = pr[1] /\ st.edges[i].to = pr[2] }
    IN  /\ pc[1] = "flow_sequential"
        /\ \E pr \in YesRepairs(st) :
               /\ Cardinality(Links(pr)) = 1
               /\ \E i \in Links(pr), j \in 1..Len(st.edges) :
                      i < j /\ st.edges[j].label = "Yes"
        /\ \E pr \in NoRepairs(st) :
               /\ Cardinality(Links(pr)) = 1
               /\ \E i \in Links(pr) :
                      \A j \in 1..Len(st.edges) : st.edges[j].label # "None" => j < i

\* the adjacent backbone pairs <<from id, to id>> whose source node is of a
\* type in types
BackbonePairs(st, types) ==
    LET seq == st.sequential_candidates
    IN  { <<st.node_map[seq[i]], st.node_map[seq[i + 1]]>> :
            i \in { k \in 1..(Len(seq) - 1) :
                      NodeById(st.nodes, st.node_map[seq[k]]).type \in types } }

\* the locals of parse_flowchart when the final pass of this call began
BeforeFinalPass(p) ==
    RepairPass(FlowLines(FlowLocals(0), SplitLines(loc[p].redacted_text)))

\* C21: the final pass of parse_flowchart adds no node and only appends
\* edges; when it returns, every adjacent backbone pair (a, b) whose source a
\* is no decision node is linked by an edge a -> b; every edge it adds is
\* unlabeled, links such a pair that no edge linked before, and is added
\* once; no edge it adds leaves a decision node.
C21_FinalPass ==
    [][\A p \in Calls :
          (pc[p] = "flow_sequential" /\ pc'[p] = "render") =>
              LET st  == frame[Frame(p)].flow
                  st2 == frame'[Frame(p)].flow
                  added == SubSeq(st2.edges, Len(st.edges) + 1, Len(st2.edges))
                  wanted == BackbonePairs(st, {"process", "terminal"})
              IN  /\ st2.nodes = st.nodes
                  /\ IsPrefix(st.edges, st2.edges)
                  /\ loc'[p].data = [nodes |-> st2.nodes, edges |-> st2.edges]
                  /\ wanted \subseteq EdgePairs(st2.edges)
                  /\ \A i \in 1..Len(added) :
                         /\ added[i].label = "None"
                         /\ <<added[i].from, added[i].to>> \in wanted
                         /\ <<added[i].from, added[i].to>> \notin EdgePairs(st.edges)
                         /\ NodeById(st.nodes, added[i].from).type # "decision"
                         /\ \A j \in 1..Len(added) :
                                (added[i].from = added[j].from
                                   /\ added[i].to = added[j].to) => i = j
      ]_vars

\* the final pass has run on a backbone with a pair that an arrow line had
\* linked, which it left at that one edge, and with a pair nothing had
\* linked, which it linked
C21_Witness ==
    /\ pc[1] = "render"
    /\ loc[1].detected_type = "flowchart"
    /\ LET st == frame[Frame(1)].flow
           before == BeforeFinalPass(1)
           pairs == BackbonePairs(st, {"process", "terminal"})
           Links(pr, edges) == { i \in 1..Len(edges) :
                                   edges[i].from = pr[1] /\ edges[i].to = pr[2] }
       IN  /\ \E pr \in pairs : /\ Cardinality(Links(pr, before.edges)) = 1
                                 /\ Cardinality(Links(pr, st.edges)) = 1
           /\ \E pr \in pairs : /\ Links(pr, before.edges) = {}
                                 /\ Cardinality(Links(pr, st.edges)) = 1

\* call p has the layout of a flowchart in hand, shifted
LaidOut(p) == pc[p] = "draw"

\* the step of call p is an iteration of the layout loop that places a node
PlacesNode(p) ==
    /\ pc[p] = "layout_bfs" /\ pc'[p] = "layout_bfs"
    /\ loc[p].lay.queue # <<>>
    /\ Head(loc[p].lay.queue).id \notin loc[p].lay.visited

\* what the iteration of call p has appended to the queue
Appended(p) ==
    SubSeq(loc'[p].lay.queue, Len(loc[p].lay.queue), Len(loc'[p].lay.queue))

\* every edge into id leaves from, and id is not the node the loop starts at
OnlyChildOf(nodes, edges, id, from) ==
    /\ id # StartNode(nodes, edges).id
    /\ id # from
    /\ \A i \in 1..Len(edges) : edges[i].to = id => edges[i].from = from

C23_ChildPlacement ==
    [][\A p \in Calls :
          PlacesNode(p) =>
              LET cur == Head(loc[p].lay.queue)
                  node == NodeById(loc[p].data.nodes, cur.id)
                  children == Children(loc[p].data.edges, cur.id)
              IN  /\ Len(children) = 1 =>
                        Appended(p) = << [id |-> children[1].to, col |-> cur.col,
                                          row |-> cur.row + 1] >>
                  /\ (node.type # "decision" /\ Len(children) > 1) =>
                        /\ Len(Appended(p)) = Len(children)
                        /\ \A i \in 1..Len(children) :
                               Appended(p)[i] =
                                 [id |-> children[i].to,
                                  col |-> cur.col + (IF i % 2 = 1 THEN 1 ELSE -1),
                                  row |-> cur.row + 1]
      ]_vars

\* C24: the shift at the end of the layout keeps the nodes and their rows,
\* keeps the difference of the columns of every two nodes (it takes the same
\* amount off every column), and leaves every column at 0 or more with some
\* node in column 0.
C24_ShiftToZero ==
    [][\A p \in Calls :
          (pc[p] = "layout_shift" /\ pc'[p] = "draw") =>
              LET before == loc[p].lay.layout
                  after == loc'[p].lay.layout
              IN  /\ DOMAIN after = DOMAIN before
                  /\ DOMAIN after = NodeIds(loc[p].data.nodes)
                  /\ \A k \in DOMAIN after :
                         /\ after[k].row = before[k].row
                         /\ after[k].col >= 0
                         /\ \A j \in DOMAIN after :
                                after[k].col - after[j].col = before[k].col - before[j].col
                  /\ \E k \in DOMAIN after : after[k].col = 0
      ]_vars

\* the loop had placed a node left of its start node; the returned layout
\* has the start node, placed at column 0, in column 1 or further right and
\* another node in column 0
C24_Witness ==
    /\ LaidOut(1)
    /\ LET start == StartNode(loc[1].data.nodes, loc[1].data.edges).id
           layout == loc[1].lay.layout
       IN  /\ layout[start].row = 0
           /\ layout[start].col >= 1
           /\ \E k \in DOMAIN layout : k # start /\ layout[k].col = 0

\* call p is in the loop of the layout
InLayoutLoop(p) == pc[p] = "layout_bfs"

\* C25: the loop of the layout ends on every node list and edge list.  The
\* iterations made and the entries still queued together never exceed one
\* more than the number of edges, so the loop takes at most 1 + E entries
\* from its queue; an iteration either places one node that had no position
\* or places none, and never moves a node that has one; and a call that has
\* entered the loop leaves it.
C25_LoopEnds ==
    /\ [](\A p \in Calls :
             InLayoutLoop(p) =>
                 /\ loc[p].iterations + Len(loc[p].lay.queue)
                        <= 1 + Len(loc[p].data.edges)
                 /\ loc[p].lay.visited = DOMAIN loc[p].lay.layout)
    /\ [][\A p \in Calls :
             (InLayoutLoop(p) /\ pc'[p] = "layout_bfs") =>
                 LET cur == Head(loc[p].lay.queue)
                     before == loc[p].lay.layout
                     after == loc'[p].lay.layout
                 IN  /\ loc'[p].iterations = loc[p].iterations + 1
                     /\ Len(loc'[p].lay.queue) < Len(loc[p].lay.queue)
                            + Len(Children(loc[p].data.edges, cur.id)) + 1
                     /\ \A k \in DOMAIN before :
                            k \in DOMAIN after /\ after[k] = before[k]
                     /\ DOMAIN after \subseteq DOMAIN before \cup {cur.id}
                     /\ cur.id \in DOMAIN before => loc'[p].lay.queue = Tail(loc[p].lay.queue)
         ]_vars
    /\ \A p \in {1} : InLayoutLoop(p) ~> (pc[p] = "layout_shift")

\* the loop has ended on a graph with a cycle, a self-loop and a repeated
\* edge, after it took an entry for a node it had placed already
C25_Witness ==
    /\ pc[1] = "layout_shift"
    /\ LET edges == loc[1].data.edges
       IN  /\ \E i \in 1..Len(edges) : edges[i].from = edges[i].to
           /\ \E i, j \in 1..Len(edges) :
                  /\ i < j
                  /\ edges[i].from # edges[i].to
                  /\ \/ edges[j] = edges[i]
                     \/ edges[j].from = edges[i].to /\ edges[j].to = edges[i].from
           /\ loc[1].iterations > Cardinality(loc[1].lay.visited)
           /\ loc[1].iterations = 1 + Len(edges)

\* call p has returned the document of a flowchart that was drawn
FlowchartDrawn(p) ==
    /\ pc[p] \in {"returned", "done"}
    /\ loc[p].detected_type = "flowchart"
    /\ ret[p].raised = "None"
    /\ ret[p].value.svg.tag = "svg"

\* C30: in every flowchart drawn, every node of the node list has its shape,
\* 180 wide and 70 high with its corner at (100 + 220*col, 100 + 140*row) of
\* its layout position, and the shape lies inside the canvas: 0 <= x,
\* x + 180 <= width, 0 <= y, y + 70 <= height.
C30_ShapesInCanvas ==
    \A p \in Calls :
        FlowchartDrawn(p) =>
            LET svg == ret[p].value.svg
                nodes == loc[p].data.nodes
                layout == loc[p].lay.layout
            IN  /\ Len(svg.nodes) = Len(nodes)
                /\ \A i \in 1..Len(nodes) :
                       /\ svg.nodes[i].x = 100 + 220 * layout[nodes[i].id].col
                       /\ svg.nodes[i].y = 100 + 140 * layout[nodes[i].id].row
                       /\ 0 <= svg.nodes[i].x
                       /\ svg.nodes[i].x + 180 <= svg.width
                       /\ 0 <= svg.nodes[i].y
                       /\ svg.nodes[i].y + 70 <= svg.height

\* a flowchart was drawn with a node in row 5, whose shape ends below the
\* least canvas height of 800, on a canvas grown to hold it
C30_Witness ==
    /\ FlowchartDrawn(1)
    /\ LET svg == ret[1].value.svg
       IN  /\ svg.height > 800
           /\ \E i \in 1..Len(svg.nodes) :
                  /\ svg.nodes[i].y + 70 > 800
                  /\ svg.nodes[i].y + 70 <= svg.height

\* C26: in the result of parse_flowchart the source and the target of every
\* edge are ids of nodes of the node list, the Yes- and No-edges that the
\* branch segments of arrow chains make among them.
C26_EdgesJoinNodes ==
    \A p \in Calls :
        FlowParsed(p) =>
            \A i \in 1..Len(loc[p].data.edges) :
                /\ loc[p].data.edges[i].from \in NodeIds(loc[p].data.nodes)
                /\ loc[p].data.edges[i].to \in NodeIds(loc[p].data.nodes)

\* C27: parse_flowchart returns no node with an empty label, also for an
\* arrow chain that ends with an arrow or holds two arrows in a row.
C27_NoEmptyLabel ==
    \A p \in Calls :
        FlowParsed(p) =>
            \A i \in 1..Len(loc[p].data.nodes) : loc[p].data.nodes[i].label # <<>>

\* C28: parse_flowchart returns no edge from a node to itself.
C28_NoSelfLoop ==
    \A p \in Calls :
        FlowParsed(p) =>
            \A i \in 1..Len(loc[p].data.edges) :
                loc[p].data.edges[i].from # loc[p].data.edges[i].to

\* the lines without the standalone Yes/No branch lines that stand where no
\* decision has been seen among the lines kept so far
RECURSIVE WithoutIdleBranches(_, _)
WithoutIdleBranches(kept, lines) ==
    IF lines = <<>> THEN kept
    ELSE WithoutIdleBranches(
             IF IsBranchLine(Head(lines)) /\ LatestDecision(kept, None) = None
             THEN kept ELSE Append(kept, Head(lines)),
             Tail(lines))

\* the step of call p takes a standalone Yes/No branch line while the lines
\* before it hold no decision
TakesIdleBranch(p) ==
    /\ TakesLine(p)
    /\ IsBranchLine(Head(loc[p].todo))
    /\ LatestDecision(LinesDone(p), None) = None

\* C29: a standalone Yes/No branch line that parse_flowchart takes while no
\* decision has been seen changes none of its locals: no node, no edge,
\* last_decision, last_non_decision and the backbone as they were; and the
\* result of the call is the result for the text without these lines.
C29_IdleBranchLine ==
    [][\A p \in Calls :
          /\ TakesIdleBranch(p) =>
                 /\ frame[Frame(p)].flow.last_decision = None
                 /\ frame'[Frame(p)].flow = frame[Frame(p)].flow
          /\ (pc[p] = "flow_sequential" /\ pc'[p] = "render") =>
                 loc'[p].data =
                     FlowResult(SequentialPass(RepairPass(
                         FlowLines(FlowLocals(0),
                             WithoutIdleBranches(<<>>, SplitLines(loc[p].redacted_text))))))
      ]_vars

\* a call has returned a flowchart with nodes for a text whose first line is
\* a standalone branch line, taken while no decision had been seen, and
\* whose later lines hold a decision and a branch line that found it
C29_Witness ==
    /\ FlowParsed(1)
    /\ LET lines == SplitLines(loc[1].redacted_text)
       IN  /\ Len(lines) = 3
           /\ IsBranchLine(lines[1])
           /\ LatestDecision(SubSeq(lines, 1, 2), None) # None
           /\ IsBranchLine(lines[3])
           /\ WithoutIdleBranches(<<>>, lines) = Tail(lines)
           /\ Len(loc[1].data.edges) >= 1

====
